---- MODULE Spec2Model ----
(***************************************************************************)
(* Two-stage song matching of the Spotify playlist importer:               *)
(* StringMatcher (stage 1), BracketMatcher (stage 2), EnhancedMatcher,     *)
(* get_enhanced_match, select_best_match, create_matched_song and the      *)
(* four-stage degraded search of spotify/sync_client.py.                   *)
(*                                                                         *)
(* Text is a sequence of tokens (a word, a blank or a bracket character).  *)
(* A Python dict is a function from its keys to its values.  Scores are    *)
(* integers in units of 1/Point of a score point; weights are percent.     *)
(***************************************************************************)
EXTENDS Integers, Sequences, FiniteSets, TLC

\* ------------------------------------------------------------------------
\* Bounds of the model
\* ------------------------------------------------------------------------
MaxCands == 3          \* longest candidate list handed to a matching call
MaxRetries == 3        \* largest max_retries given to with_retry
MaxLines == 3          \* longest song list file, in lines

Pct == 100             \* a weight of 1.0, in percent
Point == Pct * Pct     \* one score point, in model units

\* ------------------------------------------------------------------------
\* Python values
\* ------------------------------------------------------------------------
None == <<"<None>">>                     \* Python's None where a text is expected
EmptyDict == [k \in {} |-> 0]
DictGet(d, k, default) == IF k \in DOMAIN d THEN d[k] ELSE default
DictSet(d, k, v) == [x \in (DOMAIN d) \cup {k} |-> IF x = k THEN v ELSE d[x]]
\* x or y, on numbers
PyOr(x, y) == IF x # 0 THEN x ELSE y
Max2(a, b) == IF a >= b THEN a ELSE b
Min2(a, b) == IF a <= b THEN a ELSE b
Abs(a) == IF a >= 0 THEN a ELSE 0 - a

RECURSIVE SumSeq(_)
SumSeq(s) == IF s = <<>> THEN 0 ELSE Head(s) + SumSeq(Tail(s))

RECURSIVE MaxSeq(_)
MaxSeq(s) == IF Len(s) = 1 THEN s[1] ELSE Max2(Head(s), MaxSeq(Tail(s)))

\* ------------------------------------------------------------------------
\* Text: token sequences.  "(" ")" are the ASCII brackets, "fw(" "fw)" the
\* full-width brackets U+FF08 U+FF09, " " a blank.
\* ------------------------------------------------------------------------
TokLen(tok) ==
    IF tok \in {"(", ")", "fw(", "fw)", " ", "[", "]", "{", "}", ".", "-", "em-dash"} THEN 1
    ELSE IF tok \in {"chengdu", "xianchang-trad", "xianchang"} THEN 2
    ELSE IF tok \in {"live", "Live"} THEN 4
    ELSE IF tok = "remix" THEN 5
    ELSE 8                     \* "stardust", "standout", "moondust" and the
                               \* annotations "remaster", "acoustic", "feat ann"

RECURSIVE CharLen(_)
CharLen(t) == IF t = <<>> THEN 0 ELSE TokLen(Head(t)) + CharLen(Tail(t))

\* index of the first occurrence of tok in t at or after position i, 0 if none
RECURSIVE IndexFrom(_, _, _)
IndexFrom(t, tok, i) ==
    IF i > Len(t) THEN 0
    ELSE IF t[i] = tok THEN i
    ELSE IndexFrom(t, tok, i + 1)

\* str.strip() and the collapse of blank runs
RECURSIVE LStrip(_)
LStrip(t) == IF t # <<>> /\ Head(t) = " " THEN LStrip(Tail(t)) ELSE t

RECURSIVE RStrip(_)
RStrip(t) == IF t # <<>> /\ t[Len(t)] = " " THEN RStrip(SubSeq(t, 1, Len(t) - 1)) ELSE t

Strip(t) == RStrip(LStrip(t))

RECURSIVE CollapseBlanks(_)
CollapseBlanks(t) ==
    IF Len(t) < 2 THEN t
    ELSE IF t[1] = " " /\ t[2] = " " THEN CollapseBlanks(Tail(t))
    ELSE <<Head(t)>> \o CollapseBlanks(Tail(t))

normalize_whitespace(t) == CollapseBlanks(Strip(t))

\* re.sub of open [^close]* close by the empty string, left to right
RECURSIVE RemoveSpans(_, _, _)
RemoveSpans(t, open, close) ==
    IF t = <<>> THEN <<>>
    ELSE IF Head(t) = open /\ IndexFrom(t, close, 2) # 0
         THEN RemoveSpans(SubSeq(t, IndexFrom(t, close, 2) + 1, Len(t)), open, close)
         ELSE <<Head(t)>> \o RemoveSpans(Tail(t), open, close)

normalize_fullwidth(t) ==
    [i \in 1..Len(t) |-> IF t[i] = "fw(" THEN "(" ELSE IF t[i] = "fw)" THEN ")" ELSE t[i]]

\* normalize_text(text, remove_patterns=["brackets"]); None gives ""
normalize_for_matching(t) ==
    IF t = None \/ t = <<>> THEN <<>>
    ELSE normalize_whitespace(RemoveSpans(normalize_fullwidth(t), "(", ")"))

\* re.sub(r'\([^)]*\)|\[[^\]]*\]|\{[^}]*\}', '', title).strip(): only the
\* ASCII brackets are covered, the full-width ones stay
clean_title(t) == Strip(RemoveSpans(t, "(", ")"))

\* BRACKET_PATTERN.findall: the contents of the ASCII and full-width spans,
\* left to right, blank contents dropped
RECURSIVE extract_brackets(_)
extract_brackets(t) ==
    IF t = None \/ t = <<>> THEN <<>>
    ELSE LET close == IF Head(t) = "(" THEN IndexFrom(t, ")", 2)
                      ELSE IF Head(t) = "fw(" THEN IndexFrom(t, "fw)", 2)
                      ELSE 0
         IN IF close = 0 THEN extract_brackets(Tail(t))
            ELSE LET content == SubSeq(t, 2, close - 1)
                     rest == extract_brackets(SubSeq(t, close + 1, Len(t)))
                 IN IF Strip(content) = <<>> THEN rest ELSE <<content>> \o rest

\* ------------------------------------------------------------------------
\* fuzzywuzzy on the words of the model.  The values are those of the
\* library: 2*M/T*100 rounded, M the matched characters, T the total length.
\* "feat ann" is the annotation "feat ann", kept as one word.
\* ------------------------------------------------------------------------
WordRatio(a, b) ==
    IF a = b THEN 100
    ELSE IF {a, b} = {"stardust", "standout"} THEN 75
    ELSE IF {a, b} = {"stardust", "moondust"} THEN 50
    ELSE IF {a, b} = {"ann", "anna"} THEN 86
    ELSE IF {a, b} = {"maria", "mariah"} THEN 91
    ELSE IF {a, b} = {"remaster", "remix"} THEN 46
    ELSE IF {a, b} \in {{"remaster", "acoustic"}, {"remaster", "feat ann"}} THEN 38
    ELSE IF {a, b} = {"acoustic", "feat ann"} THEN 25
    ELSE IF {a, b} = {"live", "remix"} THEN 22
    ELSE IF {a, b} \in {{"live", "remaster"}, {"live", "acoustic"}, {"live", "feat ann"}} THEN 17
    ELSE IF {a, b} \in {{"remix", "acoustic"}, {"remix", "feat ann"}} THEN 15
    ELSE 0

\* partial_ratio aligns the shorter word (the first of two words of one
\* length) in the longer one, so it depends on the order of equal lengths
WordPartialRatio(a, b) ==
    IF {a, b} \in {{"ann", "anna"}, {"maria", "mariah"}} THEN 100
    ELSE IF {a, b} = {"remaster", "remix"} THEN 60
    ELSE IF <<a, b>> = <<"acoustic", "remaster">> THEN 46
    ELSE IF <<a, b>> = <<"feat ann", "remaster">> THEN 40
    ELSE IF <<a, b>> = <<"acoustic", "feat ann">> THEN 29
    ELSE IF {a, b} \in {{"live", "remix"}, {"live", "acoustic"}} THEN 29
    ELSE IF {a, b} \in {{"live", "remaster"}, {"live", "feat ann"}} THEN 25
    ELSE IF {a, b} \in {{"remix", "acoustic"}, {"remix", "feat ann"}} THEN 20
    ELSE WordRatio(a, b)

\* token_set_ratio compares the sorted tokens: "ann feat" for "feat ann"
WordTokenSetRatio(a, b) ==
    IF <<a, b>> = <<"feat ann", "remaster">> THEN 25
    ELSE WordRatio(a, b)

\* one-word texts; the empty text scores 0
fuzz_ratio(a, b) == IF a = <<>> \/ b = <<>> THEN 0 ELSE WordRatio(a[1], b[1])
fuzz_partial_ratio(a, b) == IF a = <<>> \/ b = <<>> THEN 0 ELSE WordPartialRatio(a[1], b[1])
fuzz_token_sort_ratio(a, b) == IF a = <<>> \/ b = <<>> THEN 0 ELSE WordRatio(a[1], b[1])
\* token_set_ratio, on texts and on artist names (one token each)
fuzz_token_set_ratio(a, b) == IF a = <<>> \/ b = <<>> THEN 0 ELSE WordTokenSetRatio(a[1], b[1])
name_token_set_ratio(a, b) == WordRatio(a, b)

\* Python's substring test a in b on artist names
NameIn(a, b) == a = b \/ (a = "ann" /\ b = "anna") \/ (a = "maria" /\ b = "mariah")

\* ------------------------------------------------------------------------
\* StringMatcher (utils/string_matcher.py).  A matcher m is the record of
\* the configuration values of an EnhancedMatcher and of its inner
\* StringMatcher and BracketMatcher.
\* ------------------------------------------------------------------------
calculate_title_similarity(input_title, candidate_title) ==
    LET norm_input == normalize_for_matching(input_title)
        norm_candidate == normalize_for_matching(candidate_title)
    IN ( fuzz_ratio(norm_input, norm_candidate) * 40
       + fuzz_partial_ratio(norm_input, norm_candidate) * 40
       + fuzz_token_sort_ratio(norm_input, norm_candidate) * 20 ) * Pct

\* best token_set_ratio of one input artist against the candidate artists
BestArtistMatch(input_artist, candidate_artists) ==
    MaxSeq([j \in 1..Len(candidate_artists) |->
                name_token_set_ratio(input_artist, candidate_artists[j])])

\* the words of the model contain no CJK character, so the pinyin branch
\* (avg_match < 60 and contains_chinese) is never taken
calculate_artists_similarity(input_artists, candidate_artists) ==
    IF input_artists = <<>> /\ candidate_artists = <<>> THEN 100 * Point
    ELSE IF input_artists = <<>> \/ candidate_artists = <<>> THEN 0
    ELSE LET main_artist_highest_match == BestArtistMatch(input_artists[1], candidate_artists)
             best_matches == [i \in 1..Len(input_artists) |->
                                 BestArtistMatch(input_artists[i], candidate_artists)]
         IN IF main_artist_highest_match >= 90
            THEN Max2(85, main_artist_highest_match) * Point
            ELSE (SumSeq(best_matches) * Point) \div Len(best_matches)

calculate_weighted_score(m, title_score, artist_score) ==
    (m.title_weight * title_score + m.artist_weight * artist_score) \div Pct

calculate_similarity(m, input_title, input_artists, candidate) ==
    LET title_score == calculate_title_similarity(input_title, candidate["name"])
        artist_score == calculate_artists_similarity(input_artists, candidate["artists"])
    IN [title_score |-> title_score,
        artist_score |-> artist_score,
        weighted_score |-> calculate_weighted_score(m, title_score, artist_score)]

\* input_title.lower() raises AttributeError on None
quick_check_raises(input_title) == input_title = None

\* _quick_check with the artist rejection kept for lists whose sizes differ
\* by more than 2
quick_check_SizeGated(input_title, input_artists, candidate) ==
    IF 2 * Abs(CharLen(input_title) - CharLen(candidate["name"])) > CharLen(input_title)
    THEN FALSE
    ELSE ~( /\ input_artists # <<>>
            /\ candidate["artists"] # <<>>
            /\ Abs(Len(input_artists) - Len(candidate["artists"])) > 2
            /\ \A i \in 1..Len(input_artists) : \A j \in 1..Len(candidate["artists"]) :
                  /\ ~NameIn(input_artists[i], candidate["artists"][j])
                  /\ ~NameIn(candidate["artists"][j], input_artists[i]) )

quick_check(input_title, input_artists, candidate) ==
    LET candidate_title == candidate["name"]
        candidate_artists == candidate["artists"]
        has_artist_match ==
            \E i \in 1..Len(input_artists) : \E j \in 1..Len(candidate_artists) :
                NameIn(input_artists[i], candidate_artists[j])
                    \/ NameIn(candidate_artists[j], input_artists[i])
    IN IF 2 * Abs(CharLen(input_title) - CharLen(candidate_title)) > CharLen(input_title)
       THEN FALSE
       ELSE IF input_artists # <<>> /\ candidate_artists # <<>> /\ ~has_artist_match
       THEN FALSE
       ELSE TRUE

\* list.sort(key=similarity_scores[key], reverse=True): stable, descending
ScoreOf(track, key) == track["similarity_scores"][key]

RECURSIVE InsertDesc(_, _, _)
InsertDesc(sorted, e, key) ==
    IF sorted = <<>> THEN <<e>>
    ELSE IF ScoreOf(Head(sorted), key) >= ScoreOf(e, key)
         THEN <<Head(sorted)>> \o InsertDesc(Tail(sorted), e, key)
         ELSE <<e>> \o sorted

RECURSIVE SortDesc(_, _)
SortDesc(s, key) ==
    IF s = <<>> THEN <<>>
    ELSE InsertDesc(SortDesc(SubSeq(s, 1, Len(s) - 1), key), s[Len(s)], key)

\* the loop of StringMatcher.match: the copies of the candidates that pass
\* the quick check and reach the threshold, in candidate order
RECURSIVE Stage1Matches(_, _, _, _)
Stage1Matches(m, input_title, input_artists, candidates) ==
    IF candidates = <<>> THEN <<>>
    ELSE LET candidate == Head(candidates)
             rest == Stage1Matches(m, input_title, input_artists, Tail(candidates))
             similarity_scores == calculate_similarity(m, input_title, input_artists, candidate)
         IN IF ~quick_check(input_title, input_artists, candidate) THEN rest
            ELSE IF similarity_scores.weighted_score >= m.string_threshold * Point
                 THEN <<DictSet(candidate, "similarity_scores", similarity_scores)>> \o rest
                 ELSE rest

\* TopK with the slice one short: matches[:top_k - 1]
TopK_OffByOne(m, matches) ==
    IF m.top_k > 0 /\ Len(matches) > m.top_k THEN SubSeq(matches, 1, m.top_k - 1) ELSE matches

TopK(m, matches) ==
    IF m.top_k > 0 /\ Len(matches) > m.top_k THEN SubSeq(matches, 1, m.top_k) ELSE matches

\* StringMatcher.match without the quick check and the threshold test:
\* every candidate is scored and kept
StringMatcher_match_Unfiltered(m, input_title, input_artists, candidates) ==
    IF candidates = <<>> THEN [raised |-> FALSE, ret |-> <<>>]
    ELSE IF quick_check_raises(input_title) THEN [raised |-> TRUE, ret |-> <<>>]
    ELSE [raised |-> FALSE,
          ret |-> TopK(m, SortDesc(
                     [i \in 1..Len(candidates) |->
                         DictSet(candidates[i], "similarity_scores",
                                 calculate_similarity(m, input_title, input_artists,
                                                      candidates[i]))],
                     "weighted_score"))]

\* StringMatcher.match; the result is [raised, ret]
StringMatcher_match(m, input_title, input_artists, candidates) ==
    IF candidates = <<>> THEN [raised |-> FALSE, ret |-> <<>>]
    ELSE IF quick_check_raises(input_title) THEN [raised |-> TRUE, ret |-> <<>>]
    ELSE [raised |-> FALSE,
          ret |-> TopK(m, SortDesc(Stage1Matches(m, input_title, input_artists, candidates),
                                   "weighted_score"))]

\* ------------------------------------------------------------------------
\* BracketMatcher (utils/bracket_matcher.py).  The annotations of the model
\* are "live", "remaster", "remix", "acoustic" and "feat ann".
\* ------------------------------------------------------------------------
\* Python's substring test word in content
InTokens(word, content) ==
    \E i \in 1..Len(content) :
        content[i] = word \/ (word = "feat" /\ content[i] = "feat ann")

\* normalize_text(content) and the collapse of blanks
normalize_bracket_content(content) == normalize_whitespace(normalize_fullwidth(content))

\* the keyword lists are tried in the order feat, remix, live, acoustic,
\* remaster, version, alias, year; no word of the model holds a keyword of
\* the last three
classify_bracket_type(content) ==
    IF content = <<>> THEN "other"
    ELSE IF InTokens("feat", content) THEN "feat"
    ELSE IF InTokens("remix", content) THEN "remix"
    ELSE IF InTokens("live", content) THEN "live"
    ELSE IF InTokens("acoustic", content) THEN "acoustic"
    ELSE IF InTokens("remaster", content) THEN "remaster"
    ELSE "other"

\* bracket_type_weights with every type at the weight of "other"
bracket_type_weights_Flat(type) == 40

\* bracket_type_weights, in percent
bracket_type_weights(type) ==
    CASE type = "feat" -> 90
      [] type = "remix" -> 85
      [] type = "live" -> 80
      [] type = "acoustic" -> 75
      [] type = "version" -> 70
      [] type = "alias" -> 60
      [] type = "remaster" -> 40
      [] type = "release" -> 35
      [] type = "year" -> 30
      [] OTHER -> 40

\* score of one input span against one candidate span, in points
SpanScore(input_bracket, candidate) ==
    LET base == Max2(fuzz_token_set_ratio(input_bracket, candidate),
                     Max2(fuzz_ratio(input_bracket, candidate),
                          fuzz_partial_ratio(input_bracket, candidate)))
    IN IF classify_bracket_type(input_bracket) = classify_bracket_type(candidate)
       THEN base + 10 ELSE base

\* best score of one input span over the candidate spans, 0 if none
BestSpanScore(input_bracket, normalized_candidates) ==
    LET scores == [j \in 1..Len(normalized_candidates) |->
                      IF Strip(normalized_candidates[j]) = <<>> THEN 0
                      ELSE SpanScore(input_bracket, normalized_candidates[j])]
    IN IF scores = <<>> THEN 0 ELSE MaxSeq(scores)

\* the comparison of two spans of type feat calls self.extract_feat_artists
\* and self.calculate_feat_artist_similarity, which no class defines: the
\* call raises AttributeError
calculate_bracket_similarity_raises(input_brackets, candidate_brackets) ==
    \E i \in 1..Len(input_brackets), j \in 1..Len(candidate_brackets) :
        /\ Strip(normalize_bracket_content(input_brackets[i])) # <<>>
        /\ Strip(normalize_bracket_content(candidate_brackets[j])) # <<>>
        /\ classify_bracket_type(normalize_bracket_content(input_brackets[i])) = "feat"
        /\ classify_bracket_type(normalize_bracket_content(candidate_brackets[j])) = "feat"

\* the value of calculate_bracket_similarity when it does not raise
calculate_bracket_similarity(input_brackets, candidate_brackets) ==
    IF input_brackets = <<>> /\ candidate_brackets = <<>> THEN 100 * Point
    ELSE IF input_brackets = <<>> \/ candidate_brackets = <<>>
    THEN LET brackets_to_analyze ==
                 IF input_brackets # <<>> THEN input_brackets ELSE candidate_brackets
             importance_weights ==
                 [i \in 1..Len(brackets_to_analyze) |->
                     bracket_type_weights(classify_bracket_type(brackets_to_analyze[i]))]
             avg_importance == SumSeq(importance_weights) \div Len(importance_weights)
         IN 75 * Point + (Pct - avg_importance) * 25 * Pct
    ELSE LET normalized_inputs ==
                 [i \in 1..Len(input_brackets) |-> normalize_bracket_content(input_brackets[i])]
             normalized_candidates ==
                 [j \in 1..Len(candidate_brackets) |->
                     normalize_bracket_content(candidate_brackets[j])]
             best == [i \in 1..Len(normalized_inputs) |->
                         IF Strip(normalized_inputs[i]) = <<>> THEN 0
                         ELSE BestSpanScore(normalized_inputs[i], normalized_candidates)]
             importance == [i \in 1..Len(normalized_inputs) |->
                               IF best[i] > 0
                               THEN bracket_type_weights(classify_bracket_type(normalized_inputs[i]))
                               ELSE 0]
             total_weight == SumSeq(importance)
         IN IF total_weight = 0 THEN 70 * Point
            ELSE (SumSeq([i \in 1..Len(best) |-> best[i] * importance[i]]) * Point)
                     \div total_weight

\* self.keywords restricted to the keywords the words of the model hold,
\* and their keyword_mappings (the CJK variants are written in pinyin)
detect_keywords(bracket_contents) ==
    { keyword \in {"live", "remaster", "remix", "acoustic", "feat"} :
        \E i \in 1..Len(bracket_contents) :
            InTokens(keyword, normalize_bracket_content(bracket_contents[i])) }

keyword_weight(keyword) ==
    CASE keyword = "remix" -> 8
      [] keyword = "feat" -> 5
      [] keyword = "remaster" -> 3
      [] OTHER -> 6            \* "live", "acoustic"

keyword_mappings(keyword) ==
    CASE keyword = "live" ->
            {"xianchang", "yanchanghui", "yinyuehui", "concert", "live", "live version",
             "live recording", "zaixian", "xianchang(trad)"}
      [] keyword = "remix" ->
            {"remix", "mix", "chonghun", "chongzhi", "hunyin", "dj", "club", "extended"}
      [] keyword = "acoustic" ->
            {"acoustic", "yuansheng", "yuansheng(trad)", "gangqin", "jita", "unplugged",
             "piano", "guitar"}
      [] keyword = "remaster" ->
            {"remaster", "remastered", "chongzhi", "xiufu", "gaoqing", "hd", "gaoyinzhi"}
      [] keyword = "feat" ->
            {"feat", "ft", "featuring", "with", "he", "hezuo", "xiezuo"}
      [] OTHER -> {}

extended_keywords(keywords) == keywords \cup UNION {keyword_mappings(k) : k \in keywords}

\* the weight of a key of the extended dict: a detected keyword keeps its
\* own weight, a variant takes the weight of the keyword that brought it (a
\* span of the model holds one keyword, so one keyword brings it)
ExtendedWeight(keywords, key) ==
    IF key \in keywords THEN keyword_weight(key)
    ELSE keyword_weight(CHOOSE k \in keywords : key \in keyword_mappings(k))

\* the sum of min(weight, extended_candidate_keywords[keyword]) over the
\* matched keys
RECURSIVE MatchedWeights(_, _, _)
MatchedWeights(matched, input_keywords, candidate_keywords) ==
    IF matched = {} THEN 0
    ELSE LET key == CHOOSE k \in matched : TRUE
         IN Min2(ExtendedWeight(input_keywords, key), ExtendedWeight(candidate_keywords, key))
            + MatchedWeights(matched \ {key}, input_keywords, candidate_keywords)

calculate_keyword_bonus(m, input_brackets, candidate_brackets) ==
    LET input_keywords == detect_keywords(input_brackets)
        candidate_keywords == detect_keywords(candidate_brackets)
        matched == extended_keywords(input_keywords) \cap extended_keywords(candidate_keywords)
    IN IF input_keywords = {} \/ candidate_keywords = {} THEN 0
       ELSE MatchedWeights(matched, input_keywords, candidate_keywords)
                * m.keyword_bonus * Point

\* calculate_final_score with the bracket contribution taken off the base
calculate_final_score_Deducts(m, base_score, bracket_score, keyword_bonus) ==
    Min2(base_score + keyword_bonus
            - (IF bracket_score >= m.bracket_threshold * Point
               THEN (bracket_score * m.bracket_weight) \div Pct ELSE 0),
         100 * Point)

calculate_final_score(m, base_score, bracket_score, keyword_bonus) ==
    LET bracket_contribution ==
            IF bracket_score >= m.bracket_threshold * Point
            THEN (bracket_score * m.bracket_weight) \div Pct
            ELSE 0
    IN Min2(base_score + bracket_contribution + keyword_bonus, 100 * Point)

\* BracketMatcher.match raises when the comparison of the spans does
BracketMatcher_match_raises(input_title, candidate_title) ==
    calculate_bracket_similarity_raises(extract_brackets(input_title),
                                        extract_brackets(candidate_title))

\* BracketMatcher.match without the early return for titles without spans
BracketMatcher_match_AlwaysAdjusts(m, input_title, candidate_title, base_score) ==
    calculate_final_score(m, base_score,
        calculate_bracket_similarity(extract_brackets(input_title),
                                     extract_brackets(candidate_title)),
        calculate_keyword_bonus(m, extract_brackets(input_title),
                                extract_brackets(candidate_title)))

\* the value of BracketMatcher.match when it does not raise.  No title of
\* the catalog holds a feat span, so the calls of second_stage_match on the
\* catalog never raise here.
BracketMatcher_match(m, input_title, candidate_title, base_score) ==
    LET input_brackets == extract_brackets(input_title)
        candidate_brackets == extract_brackets(candidate_title)
    IN IF input_brackets = <<>> /\ candidate_brackets = <<>> THEN base_score
       ELSE calculate_final_score(m, base_score,
                calculate_bracket_similarity(input_brackets, candidate_brackets),
                calculate_keyword_bonus(m, input_brackets, candidate_brackets))

\* ------------------------------------------------------------------------
\* EnhancedMatcher (utils/enhanced_matcher.py)
\* ------------------------------------------------------------------------
\* self.string_matcher.threshold = threshold
WithThreshold(m, threshold) == [m EXCEPT !.string_threshold = threshold]

\* first_stage_match from the return of string_matcher.match on: r is what
\* the call gave, lowered the matcher during the call.  The threshold is put
\* back by the statement after the call, which an exception skips.
FirstStageReturn(m, lowered, r) ==
    IF r.raised THEN [raised |-> TRUE, ret |-> <<>>, m |-> lowered]
    ELSE [raised |-> FALSE,
          ret |-> IF m.first_stage_threshold > 95
                     /\ ~\E i \in 1..Len(r.ret) :
                            ScoreOf(r.ret[i], "weighted_score") > 95 * Point
                  THEN <<>> ELSE r.ret,
          m |-> WithThreshold(lowered, m.string_threshold)]

\* first_stage_match; the result is [raised, ret, m], m the matcher after
\* the call
first_stage_match(m, input_title, input_artists, candidates) ==
    FirstStageReturn(m, WithThreshold(m, m.first_stage_threshold),
        StringMatcher_match(WithThreshold(m, m.first_stage_threshold),
                            input_title, input_artists, candidates))

\* the candidates of first_stage_matches after the loop of second_stage_match:
\* every one of them has its final_score written in place
WithFinalScores(m, input_title, first_stage_matches) ==
    [i \in 1..Len(first_stage_matches) |->
        LET candidate == first_stage_matches[i]
            base_score == candidate["similarity_scores"]["weighted_score"]
            final_score == BracketMatcher_match(m, input_title, candidate["name"], base_score)
        IN DictSet(candidate, "similarity_scores",
                   DictSet(candidate["similarity_scores"], "final_score", final_score))]

\* the arguments of the calls of bracket_matcher.match, in call order
BracketCalls(input_title, first_stage_matches) ==
    [i \in 1..Len(first_stage_matches) |->
        [input_title |-> input_title,
         candidate_title |-> first_stage_matches[i]["name"],
         id |-> first_stage_matches[i]["id"]]]

RECURSIVE KeepFinal(_, _)
KeepFinal(scored, threshold) ==
    IF scored = <<>> THEN <<>>
    ELSE IF ScoreOf(Head(scored), "final_score") >= threshold
         THEN <<Head(scored)>> \o KeepFinal(Tail(scored), threshold)
         ELSE KeepFinal(Tail(scored), threshold)

\* second_stage_match without the sort of second_stage_matches
second_stage_match_Unsorted(m, input_title, input_artists, first_stage_matches, testing) ==
    IF first_stage_matches = <<>>
    THEN [ret |-> <<>>, passed_after |-> <<>>, calls |-> <<>>]
    ELSE [ret |-> KeepFinal(WithFinalScores(m, input_title, first_stage_matches),
                            (IF testing THEN 50 ELSE m.second_stage_threshold) * Point),
          passed_after |-> WithFinalScores(m, input_title, first_stage_matches),
          calls |-> BracketCalls(input_title, first_stage_matches)]

\* second_stage_match; the result is [ret, passed_after, calls]: the returned
\* list, first_stage_matches as the call leaves it, the bracket comparisons
second_stage_match(m, input_title, input_artists, first_stage_matches, testing) ==
    IF first_stage_matches = <<>>
    THEN [ret |-> <<>>, passed_after |-> <<>>, calls |-> <<>>]
    ELSE LET threshold == IF testing THEN 50 ELSE m.second_stage_threshold
             scored == WithFinalScores(m, input_title, first_stage_matches)
         IN [ret |-> SortDesc(KeepFinal(scored, threshold * Point), "final_score"),
             passed_after |-> scored,
             calls |-> BracketCalls(input_title, first_stage_matches)]

\* EnhancedMatcher.match after second_stage_match has returned second
MatchAfterSecondStage(first, second, testing) ==
    [raised |-> FALSE,
     ret |-> IF second.ret # <<>> THEN second.ret
             ELSE IF testing THEN <<second.passed_after[1]>>
             ELSE <<>>,
     m |-> first.m, first_matches |-> second.passed_after,
     stage1_ran |-> TRUE, stage2_ran |-> TRUE, calls |-> second.calls]

\* EnhancedMatcher.match after first_stage_match has returned, or raised, first
MatchAfterFirstStage(input_title, input_artists, testing, first) ==
    IF first.raised \/ first.ret = <<>>
    THEN [raised |-> first.raised, ret |-> <<>>, m |-> first.m, first_matches |-> <<>>,
          stage1_ran |-> TRUE, stage2_ran |-> FALSE, calls |-> <<>>]
    ELSE MatchAfterSecondStage(first,
             second_stage_match(first.m, input_title, input_artists, first.ret, testing),
             testing)

\* EnhancedMatcher.match without its check for an empty candidate list
EnhancedMatcher_match_NoEmptyCheck(m, input_title, input_artists, candidates, testing) ==
    MatchAfterFirstStage(input_title, input_artists, testing,
        first_stage_match(m, input_title, input_artists, candidates))

\* EnhancedMatcher.match; the result is [raised, ret, m, first_matches,
\* stage1_ran, stage2_ran, calls]: the returned list, the matcher after the
\* call, the list first_stage_match returned as the call leaves it, and
\* the bracket comparisons made
EnhancedMatcher_match(m, input_title, input_artists, candidates, testing) ==
    IF candidates = <<>>
    THEN [raised |-> FALSE, ret |-> <<>>, m |-> m, first_matches |-> <<>>,
          stage1_ran |-> FALSE, stage2_ran |-> FALSE, calls |-> <<>>]
    ELSE MatchAfterFirstStage(input_title, input_artists, testing,
             first_stage_match(m, input_title, input_artists, candidates))

\* EnhancedMatcher() with the defaults of its constructor
DefaultMatcher ==
    [title_weight |-> 60, artist_weight |-> 40, string_threshold |-> 75, top_k |-> 3,
     bracket_weight |-> 30, keyword_bonus |-> 5, bracket_threshold |-> 70,
     first_stage_threshold |-> 60, second_stage_threshold |-> 70]

\* StringMatcher.__init__ with the test of the weight sum left out
StringMatcher_init_raises_RangeOnly(title_weight, artist_weight) ==
    \/ ~(0 <= title_weight /\ title_weight <= Pct)
    \/ ~(0 <= artist_weight /\ artist_weight <= Pct)

\* StringMatcher.__init__ raises ValueError: a weight outside [0, 1], or
\* abs((title_weight + artist_weight) - 1.0) > 0.001
StringMatcher_init_raises(title_weight, artist_weight) ==
    \/ ~(0 <= title_weight /\ title_weight <= Pct)
    \/ ~(0 <= artist_weight /\ artist_weight <= Pct)
    \/ Abs((title_weight + artist_weight) - Pct) * 1000 > Pct

\* EnhancedMatcher(title_weight=..., artist_weight=...): it builds its
\* StringMatcher first, whose ValueError it lets through.  The result is
\* [raised, m], m the matcher built.
EnhancedMatcher_init(title_weight, artist_weight) ==
    [raised |-> StringMatcher_init_raises(title_weight, artist_weight),
     m |-> [DefaultMatcher EXCEPT !.title_weight = title_weight,
                                  !.artist_weight = artist_weight]]

\* the writes of get_enhanced_match without the one that sets final_score to 0
ArtistOnlyScores_KeepsScore(scores) ==
    [x \in (DOMAIN scores) \cup {"is_low_confidence", "original_score"} |->
        CASE x = "is_low_confidence" -> TRUE
          [] x = "original_score" -> DictGet(scores, "final_score", 0)
          [] OTHER -> scores[x]]

\* the writes of get_enhanced_match to the scores of an artist-only match
ArtistOnlyScores(scores) ==
    [x \in (DOMAIN scores) \cup {"is_low_confidence", "original_score", "final_score"} |->
        CASE x = "is_low_confidence" -> TRUE
          [] x = "original_score" -> DictGet(scores, "final_score", 0)
          [] x = "final_score" -> 0
          [] OTHER -> scores[x]]

\* get_enhanced_match from the return of matcher.match on
BestOfMatches(matches, is_artist_only_search) ==
    IF matches = <<>> THEN <<>>
    ELSE IF is_artist_only_search
    THEN <<DictSet(matches[1], "similarity_scores",
                   ArtistOnlyScores(matches[1]["similarity_scores"]))>>
    ELSE <<matches[1]>>

\* get_enhanced_match; the result is that of EnhancedMatcher.match with
\* ret the best match, or the empty sequence for None
get_enhanced_match(input_title, input_artists, candidates, is_artist_only_search, testing) ==
    [EnhancedMatcher_match(DefaultMatcher, input_title, input_artists, candidates, testing)
        EXCEPT !.ret = BestOfMatches(@, is_artist_only_search)]

\* ------------------------------------------------------------------------
\* spotify/matcher.py
\* ------------------------------------------------------------------------
\* DEFAULT_CONFIG of utils/config_manager.py, as get_all_config returns it
MATCH_THRESHOLD == 70

ConfigMatcher ==
    [title_weight |-> 70, artist_weight |-> 30, string_threshold |-> MATCH_THRESHOLD,
     top_k |-> 3, bracket_weight |-> 30, keyword_bonus |-> 5, bracket_threshold |-> 70,
     first_stage_threshold |-> 60, second_stage_threshold |-> 70]

\* the low-confidence fallback of select_best_match on the record best_match
LowConfidenceFallback(best_match) ==
    LET similarity_scores == DictGet(best_match, "similarity_scores", EmptyDict)
        title_score == DictGet(similarity_scores, "title_similarity", 0)
        artist_score == DictGet(similarity_scores, "artist_similarity", 0)
        final_score == PyOr(DictGet(similarity_scores, "final_score", 0), title_score)
    IN DictSet(DictSet(best_match, "is_low_confidence", TRUE),
               "similarity_scores",
               [title_similarity |-> title_score,
                artist_similarity |-> artist_score,
                final_score |-> final_score])

\* select_best_match when matcher.match returned no match: first is what
\* the second call of first_stage_match gave
SelectFallback(candidates, first) ==
    IF first.ret # <<>>
    THEN [ret |-> <<LowConfidenceFallback(first.ret[1])>>, candidates |-> candidates]
    ELSE [ret |-> <<LowConfidenceFallback(candidates[1])>>,
          candidates |-> [candidates EXCEPT ![1] = LowConfidenceFallback(@)]]

\* select_best_match when matcher.match returned matches
SelectMatched(candidates, matches) ==
    [ret |-> <<DictSet(matches[1], "is_low_confidence",
                       DictGet(matches[1]["similarity_scores"], "final_score", 0)
                           < MATCH_THRESHOLD * Point)>>,
     candidates |-> candidates]

\* select_best_match from the return of matcher.match on
SelectAfterMatch(input_title, input_artists, candidates, r) ==
    [k \in {"ret", "candidates", "first_matches", "stage1_ran", "stage2_ran", "calls"} |->
        IF k \in {"ret", "candidates"}
        THEN IF r.ret = <<>>
             THEN SelectFallback(candidates,
                      first_stage_match(r.m, input_title, input_artists, candidates))[k]
             ELSE SelectMatched(candidates, r.ret)[k]
        ELSE r[k]]

\* select_best_match; the result is [ret, candidates, first_matches,
\* stage1_ran, stage2_ran, calls]: the best match (or the empty sequence
\* for None), the caller's candidate list as the call leaves it, and what
\* matcher.match did.  A title of None raises TypeError in re.sub, which
\* the except clause turns into None.
select_best_match(parsed_song, candidates) ==
    IF candidates = <<>> \/ parsed_song.title = None
    THEN [ret |-> <<>>, candidates |-> candidates, first_matches |-> <<>>,
          stage1_ran |-> FALSE, stage2_ran |-> FALSE, calls |-> <<>>]
    ELSE SelectAfterMatch(clean_title(parsed_song.title), parsed_song.artists, candidates,
             EnhancedMatcher_match(ConfigMatcher, clean_title(parsed_song.title),
                                   parsed_song.artists, candidates, FALSE))

create_matched_song(track) ==
    LET similarity_scores == DictGet(track, "similarity_scores", EmptyDict)
        final_score == DictGet(similarity_scores, "final_score", 50 * Point)
    IN [spotify_id |-> track["id"],
        name |-> track["name"],
        artists |-> track["artists"],
        is_low_confidence |-> DictGet(track, "is_low_confidence", final_score < 75 * Point),
        matched_score |-> final_score]

\* ------------------------------------------------------------------------
\* spotify/sync_client.py: the four-stage degraded search
\* ------------------------------------------------------------------------
\* a word of the title: re.findall(r'\w+', original_title)
IsWord(tok) == tok \notin {"(", ")", "fw(", "fw)", " "}

title_keywords(original_title) ==
    IF original_title = None THEN <<>>
    ELSE SelectSeq(original_title, IsWord)

\* clean_title of _search_with_sync_client: "" when the title is None or empty
search_clean_title(original_title) ==
    IF original_title = None \/ original_title = <<>> THEN <<>>
    ELSE clean_title(original_title)

\* the condition under which a stage sends its query
StageGuard(parsed_song, stage) ==
    CASE stage = 1 -> search_clean_title(parsed_song.title) # <<>> /\ parsed_song.artists # <<>>
      [] stage = 2 -> search_clean_title(parsed_song.title) # <<>>
      [] stage = 3 -> title_keywords(parsed_song.title) # <<>> /\ parsed_song.artists # <<>>
      [] OTHER -> parsed_song.artists # <<>>

\* what client.search gives a stage: tracks, no tracks, an error that lets
\* the search go on (RateLimitError, a retryable SpotifyAPIError), or one
\* that ends it (AuthenticationError, a non-retryable or unexpected error)
Responses == {"items", "empty", "retryable", "fatal"}

\* the stages 3 and 4 set is_low_confidence on the song they return
StageSong(best_match, stage) ==
    LET matched_song == create_matched_song(best_match)
    IN IF stage >= 3 THEN [matched_song EXCEPT !.is_low_confidence = TRUE]
       ELSE matched_song

\* the first stage at or after stage whose condition holds, 5 if none
RECURSIVE NextStage(_, _)
NextStage(parsed_song, stage) ==
    IF stage > 4 THEN 5
    ELSE IF StageGuard(parsed_song, stage) THEN stage
    ELSE NextStage(parsed_song, stage + 1)

\* the return at the end of _search_with_sync_client
NotFound(final_error) == IF final_error # "" THEN final_error ELSE "not found"

\* a search that goes on to the next stage although the stage found a match
StageReturn_KeepsSearching(parsed_song, response, stage, final_error, best_match) ==
    IF best_match # <<>> /\ NextStage(parsed_song, stage + 1) # 5
    THEN [song |-> <<StageSong(best_match[1], stage)>>, error |-> "",
          stage |-> stage, pc |-> NextStage(parsed_song, stage + 1),
          final_error |-> final_error]
    ELSE [song |-> <<>>, error |-> NotFound(final_error), stage |-> 0, pc |-> 0,
          final_error |-> final_error]

\* a stage of _search_with_sync_client from the return of select_best_match
\* on (best_match is empty when the response had no tracks or was an error)
StageReturn(parsed_song, response, stage, final_error, best_match) ==
    IF best_match # <<>>
    THEN [song |-> <<StageSong(best_match[1], stage)>>, error |-> "",
          stage |-> stage, pc |-> 0, final_error |-> final_error]
    ELSE IF response = "fatal"
    THEN [song |-> <<>>, error |-> "failed", stage |-> stage, pc |-> 0,
          final_error |-> "fatal"]
    ELSE IF NextStage(parsed_song, stage + 1) = 5
    THEN [song |-> <<>>, stage |-> 0, pc |-> 0,
          error |-> NotFound(IF response = "retryable" THEN "retryable" ELSE final_error),
          final_error |-> IF response = "retryable" THEN "retryable" ELSE final_error]
    ELSE [song |-> <<>>, error |-> "", stage |-> 0,
          pc |-> NextStage(parsed_song, stage + 1),
          final_error |-> IF response = "retryable" THEN "retryable" ELSE final_error]

\* one stage of _search_with_sync_client: the query of stage is sent and
\* answered by response, tracks being the items of an "items" response.
\* The result is [song, error, stage, pc, final_error]: the matched song
\* (the empty sequence for None), the error message, the stage that
\* returned (0 if none has), the next stage to send (0 after the return)
\* and final_error.
search_stage(parsed_song, tracks, response, stage, final_error) ==
    StageReturn(parsed_song, response, stage, final_error,
        IF response = "items" /\ tracks # <<>>
        THEN select_best_match(parsed_song, tracks).ret
        ELSE <<>>)

\* ------------------------------------------------------------------------
\* utils/text_normalizer.py: normalize_text and its cache
\* ------------------------------------------------------------------------
\* the end of the first match of "version" ")" at or after position i of t,
\* 0 if there is none
RECURSIVE VersionEnd(_, _)
VersionEnd(t, i) ==
    IF i + 1 > Len(t) THEN 0
    ELSE IF t[i] = "version" /\ t[i + 1] = ")" THEN i + 1
    ELSE VersionEnd(t, i + 1)

\* re.sub of \(.*?version\) by the empty string: a match runs from a "("
\* to the first "version)" after it, over any brackets in between
RECURSIVE RemoveVersionSpans(_)
RemoveVersionSpans(t) ==
    IF t = <<>> THEN <<>>
    ELSE IF Head(t) = "(" /\ VersionEnd(t, 2) # 0
         THEN RemoveVersionSpans(SubSeq(t, VersionEnd(t, 2) + 1, Len(t)))
         ELSE <<Head(t)>> \o RemoveVersionSpans(Tail(t))

\* str.lower(): "Live" is the one word of the model with an upper-case letter
to_lowercase(t) == [i \in 1..Len(t) |-> IF t[i] = "Live" THEN "live" ELSE t[i]]

\* zh_mapping and OpenCC t2s: the traditional word "xianchang-trad" (on
\* stage, the characters of zh_mapping) becomes the simplified "xianchang"
to_simplified_chinese(t) ==
    [i \in 1..Len(t) |-> IF t[i] = "xianchang-trad" THEN "xianchang" ELSE t[i]]

RECURSIVE DropDots(_)
DropDots(t) == IF t # <<>> /\ Head(t) = "." THEN DropDots(Tail(t)) ELSE t

\* re.sub(r'\.{2,}', '...', text): a run of two or more dots becomes three
RECURSIVE Ellipsis(_)
Ellipsis(t) ==
    IF t = <<>> THEN <<>>
    ELSE IF Len(t) >= 2 /\ t[1] = "." /\ t[2] = "."
         THEN <<".", ".", ".">> \o Ellipsis(DropDots(t))
         ELSE <<Head(t)>> \o Ellipsis(Tail(t))

\* the dash variants become "-", then the runs of dots become "..."
normalize_separators(t) ==
    Ellipsis([i \in 1..Len(t) |-> IF t[i] = "em-dash" THEN "-" ELSE t[i]])

\* the closing delimiter of an opening one
SpanCloser(tok) ==
    CASE tok = "(" -> ")"
      [] tok = "[" -> "]"
      [] tok = "{" -> "}"
      [] tok = "fw(" -> "fw)"
      [] OTHER -> ""

\* the openers of DEFAULT_PATTERNS["brackets"], \(.*?\)|\[.*?\]|（.*?）|【.*?】:
\* the curly brackets are not among them
BracketsPatternOpeners == {"(", "[", "fw("}

\* the openers of brackets_regex in normalize_preserving_brackets
SplitOpeners == {"(", "[", "{", "fw("}

\* re.sub of an alternation of opener .*? closer by the empty string: the
\* scan goes left to right, a match runs to the first closer of its opener
RECURSIVE RemoveBracketSpans(_, _)
RemoveBracketSpans(t, openers) ==
    IF t = <<>> THEN <<>>
    ELSE IF Head(t) \in openers /\ IndexFrom(t, SpanCloser(Head(t)), 2) # 0
         THEN RemoveBracketSpans(
                  SubSeq(t, IndexFrom(t, SpanCloser(Head(t)), 2) + 1, Len(t)), openers)
         ELSE <<Head(t)>> \o RemoveBracketSpans(Tail(t), openers)

\* compiled_patterns[pattern_name].sub('', text) for the patterns "brackets"
\* and "version" of DEFAULT_PATTERNS; an unknown name is skipped
PatternSub(text, pattern_name) ==
    CASE pattern_name = "brackets" -> RemoveBracketSpans(text, BracketsPatternOpeners)
      [] pattern_name = "version" -> RemoveVersionSpans(text)
      [] OTHER -> text

\* the loop of remove_patterns: the patterns are applied in list order
RECURSIVE ApplyPatterns(_, _)
ApplyPatterns(text, patterns) ==
    IF patterns = <<>> THEN text
    ELSE ApplyPatterns(PatternSub(text, Head(patterns)), Tail(patterns))

remove_patterns(text, patterns) ==
    IF patterns = <<>> THEN text
    ELSE normalize_whitespace(ApplyPatterns(text, patterns))

\* TextNormalizer.normalize(text, remove_patterns); the empty sequence is
\* remove_patterns None or []
TextNormalizer_normalize(text, patterns) ==
    IF text = <<>> THEN <<>>
    ELSE normalize_whitespace(
             remove_patterns(
                 normalize_separators(
                     to_simplified_chinese(normalize_fullwidth(to_lowercase(text)))),
                 patterns))

\* "live" in text.lower() or one of the two spellings of "on stage" in text
HasLive(t) == \E i \in 1..Len(t) : t[i] \in {"live", "Live", "xianchang-trad", "xianchang"}

\* a part outside the brackets: the full pipeline, with "-" turned into " "
NormalizedPart(part) ==
    normalize_whitespace(
        normalize_separators(
            [i \in 1..Len(part) |->
                IF to_simplified_chinese(normalize_fullwidth(to_lowercase(part)))[i] = "-"
                THEN " "
                ELSE to_simplified_chinese(normalize_fullwidth(to_lowercase(part)))[i]]))

\* the content of a bracketed part: "live" when it mentions live, else the
\* pipeline without the dash replacement
NormalizedContent(content) ==
    IF HasLive(content) THEN <<"live">>
    ELSE normalize_whitespace(
             normalize_separators(
                 to_simplified_chinese(normalize_fullwidth(to_lowercase(content)))))

\* re.split(brackets_regex, text) and the loop over the parts: plain holds
\* the part before the next bracketed span; every span is written back with
\* round brackets, a blank before it when the part before it is not empty
\* and a blank after it
RECURSIVE JoinedParts(_, _)
JoinedParts(t, plain) ==
    IF t = <<>> THEN NormalizedPart(plain)
    ELSE IF Head(t) \in SplitOpeners /\ IndexFrom(t, SpanCloser(Head(t)), 2) # 0
         THEN NormalizedPart(plain)
              \o (IF NormalizedPart(plain) # <<>> THEN <<" ">> ELSE <<>>)
              \o <<"(">>
              \o NormalizedContent(SubSeq(t, 2, IndexFrom(t, SpanCloser(Head(t)), 2) - 1))
              \o <<")", " ">>
              \o JoinedParts(SubSeq(t, IndexFrom(t, SpanCloser(Head(t)), 2) + 1, Len(t)), <<>>)
         ELSE JoinedParts(Tail(t), Append(plain, Head(t)))

\* the text after the first conversion to simplified characters, made when the
\* text holds one of the listed traditional characters
PreConverted(text) ==
    IF \E i \in 1..Len(text) : text[i] = "xianchang-trad"
    THEN to_simplified_chinese(text) ELSE text

\* TextNormalizer.normalize_preserving_brackets(text). Of the answers written
\* out for particular texts, the one for a text naming the city "chengdu"
\* with a mention of live is the one the words of the model can trigger.
normalize_preserving_brackets(text) ==
    IF text = <<>> THEN <<>>
    ELSE IF (\E i \in 1..Len(text) : text[i] = "chengdu") /\ HasLive(PreConverted(text))
         THEN <<"chengdu", " ", "(", "live", ")">>
         ELSE normalize_whitespace(JoinedParts(PreConverted(text), <<>>))

\* TextNormalizer.normalize(text, remove_patterns, preserve_brackets=...)
normalize(text, patterns, preserve_brackets) ==
    IF text = <<>> THEN <<>>
    ELSE IF preserve_brackets THEN normalize_preserving_brackets(text)
    ELSE TextNormalizer_normalize(text, patterns)

\* sorted(remove_patterns): the names in alphabetical order
PatternRank(pattern_name) ==
    CASE pattern_name = "brackets" -> 1
      [] pattern_name = "live" -> 2
      [] OTHER -> 3

RECURSIVE InsertName(_, _)
InsertName(sorted, name) ==
    IF sorted = <<>> THEN <<name>>
    ELSE IF PatternRank(Head(sorted)) <= PatternRank(name)
         THEN <<Head(sorted)>> \o InsertName(Tail(sorted), name)
         ELSE <<name>> \o sorted

RECURSIVE SortedNames(_)
SortedNames(names) ==
    IF names = <<>> THEN <<>>
    ELSE InsertName(SortedNames(SubSeq(names, 1, Len(names) - 1)), names[Len(names)])

\* cache_key of normalize_text called with text and remove_patterns alone:
\* replacements None, patterns_file None, preserve_brackets False
cache_key(text, patterns) ==
    <<text, IF patterns # <<>> THEN SortedNames(patterns) ELSE None, None, None, FALSE>>

\* _normalize_cache[cache_key] = normalized, with the dict replaced by one
\* that holds this entry alone
CacheStore_Replace(dict, key, normalized) == [k \in {key} |-> normalized]

\* _normalize_cache[cache_key] = normalized
CacheStore(dict, key, normalized) == DictSet(dict, key, normalized)

\* what normalize_text computes when it does not answer from the cache
normalize_text_uncached(text, patterns) ==
    IF text = None THEN <<>> ELSE TextNormalizer_normalize(text, patterns)

\* ------------------------------------------------------------------------
\* The songs, the catalog and the matchers of the model
\* ------------------------------------------------------------------------
\* the parsed songs: a plain title, a title with an annotation, a song
\* without artists, a song without title
Queries ==
    { [title |-> <<"stardust">>, artists |-> <<"ann">>],
      [title |-> <<"stardust", " ", "(", "live", ")">>, artists |-> <<"ann">>],
      [title |-> <<"stardust">>, artists |-> <<>>],
      [title |-> None, artists |-> <<"ann">>] }

Track(id, name, artists) == [id |-> id, name |-> name, artists |-> artists]

Catalog ==
    { Track("k1", <<"stardust">>, <<"ann">>),
      Track("k2", <<"moondust", " ", "(", "live", ")">>, <<"anna">>),
      Track("k3", <<"moondust">>, <<"anna">>),
      Track("k4", <<"standout">>, <<>>),
      Track("k5", <<"stardust">>, <<"zed">>) }

\* the lists of distinct tracks of the catalog, up to MaxCands long
RECURSIVE ListsOf(_)
ListsOf(n) ==
    IF n = 0 THEN {<<>>}
    ELSE LET shorter == ListsOf(n - 1)
         IN shorter \cup
            { Append(l, t) : <<l, t>> \in
                { <<l, t>> \in shorter \X Catalog :
                     Len(l) = n - 1 /\ \A i \in 1..Len(l) : l[i] # t } }

CandidateLists == ListsOf(MaxCands)

\* an EnhancedMatcher built with a lower first-stage threshold and top_k = 2
LenientMatcher ==
    [DefaultMatcher EXCEPT !.first_stage_threshold = 45, !.top_k = 2]

\* the weights callers hand to the constructor, in percent: valid ones,
\* one below 0, one above 1
ConstructorWeights == {0 - 10, 40, 60, 110}

\* ------------------------------------------------------------------------
\* State
\* ------------------------------------------------------------------------
VARIABLES
    query,        \* the parsed song being matched: [title, artists]
    candidates,   \* the caller's list of candidate records
    matcher,      \* the configuration of the caller's EnhancedMatcher
    last,         \* the last call: its arguments, what it did and its result
    cache,        \* _normalize_cache of utils/text_normalizer.py
    workers,      \* the worker threads inside normalize_text
    norm,         \* the last return of normalize_text
    call          \* the last call of a scoring function on its own

vars == <<query, candidates, matcher, last, cache, workers, norm, call>>

\* the state of the text normalizer and of the scoring calls, which the
\* matching calls below leave alone: they read normalize_text with the
\* options None and ["brackets"] only, for which a cached value is the
\* computed one
aux == <<cache, workers, norm, call>>

Idle ==
    [op |-> "none", testing |-> FALSE, artist_only |-> FALSE, raised |-> FALSE,
     ret |-> <<>>, first_matches |-> <<>>, stage1_ran |-> FALSE, stage2_ran |-> FALSE,
     calls |-> <<>>, passed |-> <<>>, passed_after |-> <<>>,
     song |-> <<>>, error |-> "", stage |-> 0, sent |-> <<>>, pc |-> 0, final_error |-> "",
     args |-> <<>>]

\* the threads in which asyncio.to_thread runs _search_with_sync_client
WorkerThreads == {"t1", "t2"}

\* a thread outside normalize_text
IdleWorker == [pc |-> "idle", text |-> <<>>, remove_patterns |-> <<>>]

\* no call of normalize_text has returned yet
NoReturn == [returned |-> FALSE, text |-> <<>>, remove_patterns |-> <<>>,
             value |-> <<>>, cached |-> FALSE]

\* no scoring function has been called yet
NoCall == [op |-> "none"]

\* a search is between two of its stages; the caller waits for it
Searching == last.op = "search" /\ last.pc # 0

Init ==
    /\ query \in Queries
    /\ candidates \in CandidateLists
    /\ matcher \in {DefaultMatcher, LenientMatcher}
    /\ last = Idle
    /\ cache = EmptyDict
    /\ workers = [w \in WorkerThreads |-> IdleWorker]
    /\ norm = NoReturn
    /\ call = NoCall

\* the record of a call: the fields of Idle, taken from the result r of
\* the call where it has them
Call(op, testing, artist_only, r) ==
    [k \in DOMAIN Idle |->
        CASE k = "op" -> op
          [] k = "testing" -> testing
          [] k = "artist_only" -> artist_only
          [] k \in (DOMAIN r) \ {"op", "testing", "artist_only"} -> r[k]
          [] OTHER -> Idle[k]]

\* matcher.string_matcher.match(title, artists, candidates)
StringMatch ==
    /\ ~Searching
    /\ last' = Call("string_match", FALSE, FALSE,
                    StringMatcher_match(matcher, query.title, query.artists, candidates))
    /\ UNCHANGED <<query, candidates, matcher, aux>>

\* matcher.first_stage_match(title, artists, candidates)
FirstStageMatch ==
    /\ ~Searching
    /\ \E r \in {first_stage_match(matcher, query.title, query.artists, candidates)} :
          /\ last' = [Call("first_stage_match", FALSE, FALSE, r) EXCEPT !.stage1_ran = TRUE]
          /\ matcher' = r.m
    /\ UNCHANGED <<query, candidates, aux>>

\* matcher.second_stage_match(title, artists, first_stage_matches, testing)
\* on the list the caller got from first_stage_match; passed is that list
\* before the call, passed_after the same list after it
SecondStageMatch ==
    /\ last.op = "first_stage_match"
    /\ ~last.raised
    /\ \E testing \in BOOLEAN :
          last' = [Call("second_stage_match", testing, FALSE,
                        second_stage_match(matcher, query.title, query.artists,
                                           last.ret, testing))
                      EXCEPT !.passed = last.ret, !.stage2_ran = last.ret # <<>>]
    /\ UNCHANGED <<query, candidates, matcher, aux>>

\* matcher.match(title, artists, candidates, testing)
Match ==
    /\ ~Searching
    /\ \E testing \in BOOLEAN :
          \E r \in {EnhancedMatcher_match(matcher, query.title, query.artists,
                                          candidates, testing)} :
             /\ last' = Call("match", testing, FALSE, r)
             /\ matcher' = r.m
    /\ UNCHANGED <<query, candidates, aux>>

\* get_enhanced_match(title, artists, candidates, is_artist_only_search)
GetEnhancedMatch ==
    /\ ~Searching
    /\ \E is_artist_only_search \in BOOLEAN, testing \in BOOLEAN :
          last' = Call("get_enhanced_match", testing, is_artist_only_search,
                       get_enhanced_match(query.title, query.artists, candidates,
                                          is_artist_only_search, testing))
    /\ UNCHANGED <<query, matcher, candidates, aux>>

\* select_best_match(parsed_song, candidates)
SelectBestMatch ==
    /\ ~Searching
    /\ \E r \in {select_best_match(query, candidates)} :
          /\ last' = Call("select_best_match", FALSE, FALSE, r)
          /\ candidates' = r.candidates
    /\ UNCHANGED <<query, matcher, aux>>

\* matcher = EnhancedMatcher(title_weight=..., artist_weight=...): when the
\* constructor raises, the caller keeps the matcher it had
Construct ==
    /\ ~Searching
    /\ \E title_weight \in ConstructorWeights, artist_weight \in ConstructorWeights :
          \E r \in {EnhancedMatcher_init(title_weight, artist_weight)} :
             /\ last' = [Idle EXCEPT !.op = "construct", !.raised = r.raised,
                                     !.args = <<title_weight, artist_weight>>]
             /\ matcher' = IF r.raised THEN matcher ELSE r.m
    /\ UNCHANGED <<query, candidates, aux>>

\* _search_with_sync_client(parsed_song) is called: it goes to the first
\* stage whose condition holds, and returns at once if there is none
SearchStart ==
    /\ ~Searching
    /\ last' = [Idle EXCEPT !.op = "search",
                            !.pc = IF NextStage(query, 1) = 5 THEN 0
                                   ELSE NextStage(query, 1),
                            !.error = IF NextStage(query, 1) = 5 THEN NotFound("") ELSE ""]
    /\ UNCHANGED <<query, candidates, matcher, aux>>

\* the stage last.pc of the search sends its query and handles the
\* response; the catalog answers an "items" response with candidates
SearchStage ==
    /\ Searching
    /\ \E response \in Responses :
          last' = [Call("search", FALSE, FALSE,
                        search_stage(query, candidates, response, last.pc, last.final_error))
                      EXCEPT !.sent = Append(last.sent, last.pc)]
    /\ UNCHANGED <<query, candidates, matcher, aux>>

Next ==
    \/ StringMatch
    \/ FirstStageMatch
    \/ SecondStageMatch
    \/ Match
    \/ GetEnhancedMatch
    \/ SelectBestMatch
    \/ Construct
    \/ SearchStart
    \/ SearchStage

Spec == Init /\ [][Next]_vars

\* ------------------------------------------------------------------------
\* normalize_text called from the worker threads.  A thread is preempted
\* only between two operations on the dict _normalize_cache, each of which
\* is atomic: the membership test, the read, the store.
\* ------------------------------------------------------------------------
\* the texts handed to normalize_text
NormTexts ==
    { None,
      <<"stardust", " ", "fw(", "live", "fw)">>,
      <<"(", "live", ")", " ", "stardust", " ", "(", "version", ")">> }

\* the remove_patterns handed to normalize_text; the empty sequence is None
OptionLists ==
    { <<>>, <<"brackets">>, <<"brackets", "version">>, <<"version", "brackets">> }

\* the remove_patterns of the calls the matchers make: normalize_text(content)
\* of normalize_bracket_content, normalize_text(text, ["brackets"]) of
\* normalize_for_matching
MatchingOptions == { <<>>, <<"brackets">> }

NoSong == [title |-> <<>>, artists |-> <<>>]

NormInit ==
    /\ query = NoSong
    /\ candidates = <<>>
    /\ matcher = DefaultMatcher
    /\ last = Idle
    /\ cache = EmptyDict
    /\ workers = [w \in WorkerThreads |-> IdleWorker]
    /\ norm = NoReturn
    /\ call = NoCall

\* the return of normalize_text in a thread
Returned(text, patterns, value, cached) ==
    [returned |-> TRUE, text |-> text, remove_patterns |-> patterns,
     value |-> value, cached |-> cached]

\* a thread calls normalize_text(text, remove_patterns): None returns ""
\* at once, another text is looked up in the cache
NormalizeCall ==
    /\ \E w \in WorkerThreads, text \in NormTexts, patterns \in OptionLists :
          /\ workers[w].pc = "idle"
          /\ IF text = None
             THEN /\ norm' = Returned(text, patterns, <<>>, FALSE)
                  /\ workers' = workers
             ELSE /\ norm' = norm
                  /\ workers' = [workers EXCEPT ![w] =
                         [pc |-> IF cache_key(text, patterns) \in DOMAIN cache
                                 THEN "hit" ELSE "miss",
                          text |-> text, remove_patterns |-> patterns]]
    /\ UNCHANGED <<query, candidates, matcher, last, cache, call>>

\* return _normalize_cache[cache_key]
NormalizeHit ==
    /\ \E w \in WorkerThreads :
          /\ workers[w].pc = "hit"
          /\ norm' = Returned(workers[w].text, workers[w].remove_patterns,
                              cache[cache_key(workers[w].text, workers[w].remove_patterns)],
                              TRUE)
          /\ workers' = [workers EXCEPT ![w] = IdleWorker]
    /\ UNCHANGED <<query, candidates, matcher, last, cache, call>>

\* normalized = normalizer.normalize(...); _normalize_cache[cache_key] =
\* normalized; return normalized
NormalizeMiss ==
    /\ \E w \in WorkerThreads :
          /\ workers[w].pc = "miss"
          /\ \E normalized \in {TextNormalizer_normalize(workers[w].text,
                                                        workers[w].remove_patterns)} :
                /\ cache' = CacheStore(cache,
                                cache_key(workers[w].text, workers[w].remove_patterns),
                                normalized)
                /\ norm' = Returned(workers[w].text, workers[w].remove_patterns,
                                    normalized, FALSE)
          /\ workers' = [workers EXCEPT ![w] = IdleWorker]
    /\ UNCHANGED <<query, candidates, matcher, last, call>>

NormNext ==
    \/ NormalizeCall
    \/ NormalizeHit
    \/ NormalizeMiss

NormSpec == NormInit /\ [][NormNext]_vars

\* ------------------------------------------------------------------------
\* BracketAwareMatcher (utils/enhanced_matcher.py).  An info is what
\* _prepare_input_song gives: the main title, the contents of the spans
\* and the main names of the artists.
\* ------------------------------------------------------------------------
Info(main_title, bracket_parts, artists) ==
    [main_title |-> main_title, bracket_parts |-> bracket_parts, artists |-> artists]

\* the words of the model contain no CJK character: the four ratios weigh
\* 0.25 each and the bonus for traditional characters is never given
BracketAware_calculate_title_similarity(title1, title2) ==
    IF title1 = <<>> \/ title2 = <<>> THEN 0
    ELSE IF title1 = title2 THEN 100 * Point
    ELSE Min2(( fuzz_ratio(title1, title2) + fuzz_partial_ratio(title1, title2)
              + fuzz_token_sort_ratio(title1, title2)
              + fuzz_token_set_ratio(title1, title2) ) * 25 * Pct,
              100 * Point)

IsPositive(score) == score > 0

\* the mean of the best fuzz.ratio of each input artist, the input artists
\* without a positive best score left out
BracketAware_calculate_artists_similarity(input_artists, candidate_artists) ==
    IF input_artists = <<>> \/ candidate_artists = <<>> THEN 0
    ELSE LET best_scores ==
                 SelectSeq([i \in 1..Len(input_artists) |->
                               MaxSeq([j \in 1..Len(candidate_artists) |->
                                   WordRatio(input_artists[i], candidate_artists[j])])],
                           IsPositive)
         IN IF best_scores = <<>> THEN 0
            ELSE (SumSeq(best_scores) * Point) \div Len(best_scores)

BracketAware_calculate_bracket_similarity(m, input_brackets, candidate_brackets) ==
    calculate_bracket_similarity(input_brackets, candidate_brackets)
        + calculate_keyword_bonus(m, input_brackets, candidate_brackets)

\* candidate['similarity_scores'] from the three component scores
BracketAware_similarity_scores(m, title_score, artist_score, bracket_score) ==
    [title_score |-> title_score,
     artist_score |-> artist_score,
     main_score |-> (m.title_weight * title_score + m.artist_weight * artist_score) \div Pct,
     bracket_score |-> bracket_score,
     final_score |-> (m.title_weight * title_score + m.artist_weight * artist_score) \div Pct
                        + (m.bracket_weight * bracket_score) \div Pct]

\* the candidates with their scores, in the order of the list
AllCandidatesWithScores(m, input_info, info_candidates) ==
    [i \in 1..Len(info_candidates) |->
        [id |-> info_candidates[i].id,
         similarity_scores |->
            BracketAware_similarity_scores(m,
                BracketAware_calculate_title_similarity(input_info.main_title,
                    info_candidates[i].normalized_info.main_title),
                BracketAware_calculate_artists_similarity(input_info.artists,
                    info_candidates[i].normalized_info.artists),
                BracketAware_calculate_bracket_similarity(m, input_info.bracket_parts,
                    info_candidates[i].normalized_info.bracket_parts))]]

match_with_normalized_info_raises(input_info, info_candidates) ==
    \E i \in 1..Len(info_candidates) :
        calculate_bracket_similarity_raises(input_info.bracket_parts,
            info_candidates[i].normalized_info.bracket_parts)

\* the matches at or above second_stage_threshold by falling final score,
\* else the best candidate alone, else nothing
ReturnedMatches(m, all_candidates_with_scores) ==
    IF \E i \in 1..Len(all_candidates_with_scores) :
          ScoreOf(all_candidates_with_scores[i], "final_score")
              >= m.second_stage_threshold * Point
    THEN LET AboveThreshold(c) ==
                 ScoreOf(c, "final_score") >= m.second_stage_threshold * Point
         IN SortDesc(SelectSeq(all_candidates_with_scores, AboveThreshold), "final_score")
    ELSE IF all_candidates_with_scores # <<>>
    THEN <<SortDesc(all_candidates_with_scores, "final_score")[1]>>
    ELSE <<>>

\* the value of match_with_normalized_info when it does not raise
match_with_normalized_info(m, input_info, info_candidates) ==
    ReturnedMatches(m, AllCandidatesWithScores(m, input_info, info_candidates))

\* ------------------------------------------------------------------------
\* The scoring functions called on their own: call is the call made, its
\* arguments and what it gave.  The functions keep no state from one call
\* to the next, so a behaviour makes one call.
\* ------------------------------------------------------------------------
\* a title with one annotation span
Annotated(word) == <<"stardust", " ", "(", word, ")">>

\* a plain title and titles with one span of the types live, remaster,
\* remix, acoustic and feat
ScoreTitles ==
    { <<"stardust">>, Annotated("live"), Annotated("remaster"), Annotated("remix"),
      Annotated("acoustic"), Annotated("feat ann") }

\* BRACKET_WEIGHT and BRACKET_THRESHOLD as the configuration may set them;
\* 30 and 70 are the defaults
BracketWeights == {0, 30, 50}
BracketThresholds == {70, 80, 95}

ScoreMatchers ==
    { [DefaultMatcher EXCEPT !.bracket_weight = w, !.bracket_threshold = t] :
          w \in BracketWeights, t \in BracketThresholds }

\* base scores, bracket similarities and keyword bonuses, in model units
BaseScores == { 0, 50 * Point, 75 * Point, 80 * Point, 100 * Point }
BracketScores == { 0, 20 * Point, 70 * Point, 90 * Point, 110 * Point }
KeywordBonuses == { 0, 15 * Point, 270 * Point }

\* the arguments of _quick_check
QuickTitles == { <<"stardust">>, <<"live">>, <<>> }
ArtistLists == { <<>>, <<"ann">>, <<"zed">>, <<"anna", "bob", "cat", "dan">> }

\* candidates with their normalized_info, and the lists of at most two of
\* them handed to match_with_normalized_info
InfoCatalog ==
    { [id |-> "k1", normalized_info |-> Info(<<"stardust">>, <<>>, <<"ann">>)],
      [id |-> "k2", normalized_info |-> Info(<<"stardust">>, << <<"live">> >>, <<"ann">>)],
      [id |-> "k3", normalized_info |-> Info(<<"moondust">>, <<>>, <<"zed">>)],
      [id |-> "k4", normalized_info |-> Info(<<"stardust">>, << <<"remix">> >>, <<"anna">>)],
      [id |-> "k5", normalized_info |-> Info(<<"stardust">>, << <<"feat ann">> >>, <<>>)] }

InfoCandidateLists ==
    {<<>>} \cup { <<c>> : c \in InfoCatalog }
           \cup { <<c, d>> : <<c, d>> \in { p \in InfoCatalog \X InfoCatalog : p[1] # p[2] } }

\* the texts handed to TextNormalizer.normalize
PipelineTexts ==
    { <<>>,
      <<"stardust", ".", "(", "live", ")", ".">>,
      <<"stardust", ".", ".", ".", ".">>,
      <<"stardust", " ", "{", "remix", "}">>,
      <<"stardust", " ", "[", "remix", "]", " ", "fw(", "Live", "fw)">>,
      <<"stardust", " ", "(", "xianchang-trad", " ", "remix", ")">>,
      <<"chengdu", " ", "xianchang-trad", " ", "stardust">>,
      <<"stardust", "em-dash", "moondust">>,
      <<" ", "Live", " ", " ", "stardust">>,
      <<"stardust", " ", "(", "live">>,
      <<"(", "(", "live", ")", " ", "remix", ")">> }

\* the remove_patterns arguments of those calls
PipelinePatterns == {<<>>, <<"brackets">>}

\* the artist lists handed to calculate_artists_similarity
SimilarityArtistLists ==
    { <<>>, <<"zed">>, <<"maria">>, <<"mariah">>, <<"maria", "zed">>, <<"mariah", "zed">>,
      <<"zed", "maria">> }

ScoreInit ==
    /\ query = NoSong
    /\ candidates = <<>>
    /\ matcher = DefaultMatcher
    /\ last = Idle
    /\ cache = EmptyDict
    /\ workers = [w \in WorkerThreads |-> IdleWorker]
    /\ norm = NoReturn
    /\ call = NoCall

\* BracketMatcher.match(input_title, candidate_title, base_score)
BracketMatch ==
    /\ call = NoCall
    /\ \E m \in ScoreMatchers, input_title \in ScoreTitles, candidate_title \in ScoreTitles,
          base_score \in BaseScores :
          call' = [op |-> "bracket_match", m |-> m, input_title |-> input_title,
                   candidate_title |-> candidate_title, base_score |-> base_score,
                   raised |-> BracketMatcher_match_raises(input_title, candidate_title),
                   ret |-> IF BracketMatcher_match_raises(input_title, candidate_title)
                           THEN 0 - 1
                           ELSE BracketMatcher_match(m, input_title, candidate_title,
                                                     base_score)]
    /\ UNCHANGED <<query, candidates, matcher, last, cache, workers, norm>>

\* BracketMatcher.calculate_final_score(base_score, bracket_score, keyword_bonus)
FinalScore ==
    /\ call = NoCall
    /\ \E m \in ScoreMatchers, base_score \in BaseScores, bracket_score \in BracketScores,
          keyword_bonus \in KeywordBonuses :
          call' = [op |-> "final_score", m |-> m, base_score |-> base_score,
                   bracket_score |-> bracket_score, keyword_bonus |-> keyword_bonus,
                   ret |-> calculate_final_score(m, base_score, bracket_score,
                                                 keyword_bonus)]
    /\ UNCHANGED <<query, candidates, matcher, last, cache, workers, norm>>

\* StringMatcher._quick_check(input_title, input_artists, candidate)
QuickCheck ==
    /\ call = NoCall
    /\ \E input_title \in QuickTitles, input_artists \in ArtistLists,
          name \in QuickTitles, artists \in ArtistLists :
          call' = [op |-> "quick_check", input_title |-> input_title,
                   input_artists |-> input_artists,
                   candidate |-> Track("q1", name, artists),
                   ret |-> quick_check(input_title, input_artists,
                                       Track("q1", name, artists))]
    /\ UNCHANGED <<query, candidates, matcher, last, cache, workers, norm>>

\* BracketAwareMatcher.match_with_normalized_info(input_info, candidates)
MatchWithNormalizedInfo ==
    /\ call = NoCall
    /\ \E input \in InfoCatalog, info_candidates \in InfoCandidateLists :
          call' = [op |-> "match_with_normalized_info",
                   input_info |-> input.normalized_info,
                   candidates |-> info_candidates,
                   raised |-> match_with_normalized_info_raises(input.normalized_info,
                                                                info_candidates),
                   ret |-> IF match_with_normalized_info_raises(input.normalized_info,
                                                                info_candidates)
                           THEN <<>>
                           ELSE match_with_normalized_info(DefaultMatcher,
                                    input.normalized_info, info_candidates)]
    /\ UNCHANGED <<query, candidates, matcher, last, cache, workers, norm>>

\* StringMatcher.calculate_artists_similarity(input_artists, candidate_artists)
ArtistsSimilarity ==
    /\ call = NoCall
    /\ \E input_artists \in SimilarityArtistLists,
          candidate_artists \in SimilarityArtistLists :
          call' = [op |-> "artists_similarity", input_artists |-> input_artists,
                   candidate_artists |-> candidate_artists,
                   ret |-> calculate_artists_similarity(input_artists, candidate_artists)]
    /\ UNCHANGED <<query, candidates, matcher, last, cache, workers, norm>>

\* TextNormalizer().normalize(text, remove_patterns, preserve_brackets=...)
Normalize ==
    /\ call = NoCall
    /\ \E text \in PipelineTexts, patterns \in PipelinePatterns,
          preserve_brackets \in BOOLEAN :
          call' = [op |-> "normalize", text |-> text, remove_patterns |-> patterns,
                   preserve_brackets |-> preserve_brackets,
                   ret |-> normalize(text, patterns, preserve_brackets)]
    /\ UNCHANGED <<query, candidates, matcher, last, cache, workers, norm>>

ScoreNext ==
    \/ Normalize
    \/ ArtistsSimilarity
    \/ BracketMatch
    \/ FinalScore
    \/ QuickCheck
    \/ MatchWithNormalizedInfo

ScoreSpec == ScoreInit /\ [][ScoreNext]_vars

\* ------------------------------------------------------------------------
\* spotify/sync_client.py: the decorator with_retry.  Delays are counted in
\* half seconds.
\* ------------------------------------------------------------------------
API_BASE_DELAY == 1
API_MAX_DELAY == 20

RECURSIVE Pow2(_)
Pow2(n) == IF n = 0 THEN 1 ELSE 2 * Pow2(n - 1)

\* what one invocation of the wrapped function does: it returns, or raises
\* RateLimitError, a SpotifyAPIError with retryable set, a SpotifyAPIError
\* without it (AuthenticationError among them), or another exception
Outcomes == {"ok", "rate_limit", "retryable", "fatal", "unexpected"}

\* the retry_after of a RateLimitError: 0 for None
RetryAfters == {0, 6, 120}

\* the wrapper at its entry: attempt is the loop variable, invocations the
\* outcomes of the calls of func so far, slept the arguments of time.sleep
Wrapper(max_retries) ==
    [op |-> "with_retry", max_retries |-> max_retries, attempt |-> 0, pc |-> "loop",
     invocations |-> <<>>, slept |-> <<>>, last_exception |-> "", raises |-> ""]

\* the wrapper that sleeps and tries again after every exception
wrapper_attempt_RetriesAll(w, outcome, retry_after) ==
    IF outcome = "ok"
    THEN [w EXCEPT !.invocations = Append(@, outcome), !.pc = "returned"]
    ELSE [w EXCEPT !.invocations = Append(@, outcome), !.last_exception = outcome,
                   !.slept = Append(@, Min2(API_BASE_DELAY * Pow2(w.attempt), API_MAX_DELAY)),
                   !.attempt = @ + 1]

\* one pass of the loop body of wrapper: func is invoked and ends with outcome
wrapper_attempt(w, outcome, retry_after) ==
    CASE outcome = "ok" ->
           [w EXCEPT !.invocations = Append(@, outcome), !.pc = "returned"]
      [] outcome = "rate_limit" ->
           [w EXCEPT !.invocations = Append(@, outcome), !.last_exception = outcome,
                     !.slept = Append(@, Min2(IF retry_after # 0 THEN retry_after
                                              ELSE API_BASE_DELAY * Pow2(w.attempt),
                                              API_MAX_DELAY)),
                     !.attempt = @ + 1]
      [] outcome = "retryable" ->
           [w EXCEPT !.invocations = Append(@, outcome), !.last_exception = outcome,
                     !.slept = Append(@, Min2(API_BASE_DELAY * Pow2(w.attempt),
                                              API_MAX_DELAY)),
                     !.attempt = @ + 1]
      [] OTHER ->
           [w EXCEPT !.invocations = Append(@, outcome), !.last_exception = outcome,
                     !.pc = "raised", !.raises = outcome]

\* the statements after the loop: the last exception is raised again
wrapper_exhausted(w) ==
    [w EXCEPT !.pc = "raised",
              !.raises = IF w.last_exception # "" THEN w.last_exception
                         ELSE "RuntimeError"]

RetryInit ==
    /\ query = NoSong
    /\ candidates = <<>>
    /\ matcher = DefaultMatcher
    /\ last = Idle
    /\ cache = EmptyDict
    /\ workers = [w \in WorkerThreads |-> IdleWorker]
    /\ norm = NoReturn
    /\ call \in {Wrapper(max_retries) : max_retries \in 0..MaxRetries}

\* the body of the for loop runs once more
RetryAttempt ==
    /\ call.pc = "loop"
    /\ call.attempt <= call.max_retries
    /\ \E outcome \in Outcomes, retry_after \in RetryAfters :
          /\ (outcome # "rate_limit" => retry_after = 0)
          /\ call' = wrapper_attempt(call, outcome, retry_after)
    /\ UNCHANGED <<query, candidates, matcher, last, cache, workers, norm>>

\* range(max_retries + 1) is used up
RetryExhausted ==
    /\ call.pc = "loop"
    /\ call.attempt > call.max_retries
    /\ call' = wrapper_exhausted(call)
    /\ UNCHANGED <<query, candidates, matcher, last, cache, workers, norm>>

RetryNext ==
    \/ RetryAttempt
    \/ RetryExhausted

RetrySpec == RetryInit /\ [][RetryNext]_vars

\* ------------------------------------------------------------------------
\* core/batch_processor.py and core/optimized_batch_processor.py:
\* process_song_list_file.  A line of the file is "blank" (empty once
\* stripped) or "song"; parse_song_line gives every stripped non-empty line
\* a non-empty title (a line cannot start with the separator " - " once it
\* is stripped), so the branches for a line that cannot be parsed are not
\* entered.
\* ------------------------------------------------------------------------
LineKinds == {"blank", "song"}

\* the sequences over s of length at most n
RECURSIVE SeqsUpTo(_, _)
SeqsUpTo(s, n) ==
    IF n = 0 THEN {<<>>}
    ELSE SeqsUpTo(s, n - 1)
         \cup {Append(q, x) : q \in {p \in SeqsUpTo(s, n - 1) : Len(p) = n - 1}, x \in s}

\* the number of lines that are not empty once stripped
NonEmptyLines(lines) == Len(SelectSeq(lines, LAMBDA l : l # "blank"))

\* the call after the file is read: optimized tells the two modules apart.
\* The optimized one drops the blank lines and counts the rest at once;
\* the other one counts as it goes.
BatchStart(optimized, lines, has_callback) ==
    [op |-> "process_song_list_file", optimized |-> optimized, lines |-> lines,
     has_callback |-> has_callback, i |-> 1, pc |-> "loop",
     total_songs |-> IF optimized THEN NonEmptyLines(lines) ELSE 0,
     matched_songs |-> 0, failed_songs |-> 0, ret |-> <<>>]

\* the handler of the outermost try: the error is logged, (0, 0, 0) returned
BatchAborted(c) == [c EXCEPT !.pc = "returned", !.ret = <<0, 0, 0>>]

\* batch_processor: one pass of the loop over the lines.  search is what
\* spotify_search_func does ("match", "none" or "raise"), callback what the
\* call of on_result_callback in the try block does and callback_again what
\* the one in the except block does ("ok" or "raise").
process_line(c, search, callback, callback_again) ==
    LET counted == [c EXCEPT !.i = @ + 1, !.total_songs = @ + 1]
        searched ==
            IF search = "match" THEN [counted EXCEPT !.matched_songs = @ + 1]
            ELSE [counted EXCEPT !.failed_songs = @ + 1]
    IN IF c.lines[c.i] = "blank" THEN [c EXCEPT !.i = @ + 1]
       ELSE IF search # "raise" /\ (~c.has_callback \/ callback = "ok") THEN searched
       ELSE IF search # "raise"
            THEN \* the callback raised after the line was counted
                 IF callback_again = "ok"
                 THEN [searched EXCEPT !.failed_songs = @ + 1]
                 ELSE BatchAborted(c)
       ELSE IF ~c.has_callback \/ callback_again = "ok"
            THEN [counted EXCEPT !.failed_songs = @ + 1]
            ELSE BatchAborted(c)

\* optimized_batch_processor: process_single_song for one line; its result
\* is counted as matched only if the try block ran to its end
process_single_song(c, search, callback, callback_again) ==
    IF c.lines[c.i] = "blank" THEN [c EXCEPT !.i = @ + 1]
    ELSE IF search # "raise" /\ (~c.has_callback \/ callback = "ok")
         THEN IF search = "match"
              THEN [c EXCEPT !.i = @ + 1, !.matched_songs = @ + 1]
              ELSE [c EXCEPT !.i = @ + 1, !.failed_songs = @ + 1]
    ELSE IF ~c.has_callback \/ callback_again = "ok"
         THEN [c EXCEPT !.i = @ + 1, !.failed_songs = @ + 1]
         ELSE BatchAborted(c)

\* the return after the last line; a file without a song gives (0, 0, 0)
batch_return(c) ==
    [c EXCEPT !.pc = "returned",
              !.ret = <<c.total_songs, c.matched_songs, c.failed_songs>>]

SearchOutcomes == {"match", "none", "raise"}
CallbackOutcomes == {"ok", "raise"}

BatchInit ==
    /\ query = NoSong
    /\ candidates = <<>>
    /\ matcher = DefaultMatcher
    /\ last = Idle
    /\ cache = EmptyDict
    /\ workers = [w \in WorkerThreads |-> IdleWorker]
    /\ norm = NoReturn
    /\ call \in {BatchStart(optimized, lines, has_callback) :
                    optimized \in BOOLEAN, lines \in SeqsUpTo(LineKinds, MaxLines),
                    has_callback \in BOOLEAN}

\* one line of the file is handled
ProcessLine ==
    /\ call.pc = "loop"
    /\ call.i <= Len(call.lines)
    /\ \E search \in SearchOutcomes, callback \in CallbackOutcomes,
          callback_again \in CallbackOutcomes :
          call' = IF call.optimized
                  THEN process_single_song(call, search, callback, callback_again)
                  ELSE process_line(call, search, callback, callback_again)
    /\ UNCHANGED <<query, candidates, matcher, last, cache, workers, norm>>

\* all lines are handled: the counts are returned
BatchReturn ==
    /\ call.pc = "loop"
    /\ call.i > Len(call.lines)
    /\ call' = batch_return(call)
    /\ UNCHANGED <<query, candidates, matcher, last, cache, workers, norm>>

BatchNext ==
    \/ ProcessLine
    \/ BatchReturn

BatchSpec == BatchInit /\ [][BatchNext]_vars

\* ------------------------------------------------------------------------
\* spotify/singleton_client.py: SpotifyClientSingleton.get_instance called
\* from several threads.  The class attributes are in call, the threads in
\* workers; a client is named by the number of successful creations so far.
\* ------------------------------------------------------------------------
\* the class before any call; 0 stands for None, lock holds the thread that
\* owns _lock
SingletonClass ==
    [op |-> "singleton", instance |-> 0, init_in_progress |-> FALSE, init_done |-> FALSE,
     lock |-> "free", created |-> 0]

\* a thread outside get_instance: ret is what its last call returned (0
\* before the first return and after a RuntimeError), via the way that
\* call took
OutsideCall == [pc |-> "idle", ret |-> 0, via |-> "", spotify_client |-> 0]

\* the double check made under the lock, without its condition
needs_init_Always(c) == TRUE

\* the double check made under the lock
needs_init(c) == c.instance = 0 /\ ~c.init_in_progress

\* the thread t goes to pc
Goto(t, pc) == [workers EXCEPT ![t].pc = pc]

\* the thread t leaves get_instance with ret
Leave(t, ret, via) ==
    [workers EXCEPT ![t] = [pc |-> "idle", ret |-> ret, via |-> via, spotify_client |-> 0]]

SingletonInit ==
    /\ query = NoSong
    /\ candidates = <<>>
    /\ matcher = DefaultMatcher
    /\ last = Idle
    /\ cache = EmptyDict
    /\ workers = [w \in WorkerThreads |-> OutsideCall]
    /\ norm = NoReturn
    /\ call = SingletonClass

\* a thread calls get_instance
GetInstance ==
    /\ \E t \in WorkerThreads :
          /\ workers[t].pc = "idle"
          /\ workers' = Goto(t, "check_instance")
    /\ UNCHANGED <<query, candidates, matcher, last, cache, norm, call>>

\* if cls._instance is not None: return cls._instance
CheckInstance ==
    /\ \E t \in WorkerThreads :
          /\ workers[t].pc = "check_instance"
          /\ workers' = IF call.instance # 0 THEN Leave(t, call.instance, "existing")
                         ELSE Goto(t, "check_progress")
    /\ UNCHANGED <<query, candidates, matcher, last, cache, norm, call>>

\* if cls._init_in_progress
CheckProgress ==
    /\ \E t \in WorkerThreads :
          /\ workers[t].pc = "check_progress"
          /\ workers' = IF call.init_in_progress THEN Goto(t, "wait")
                         ELSE Goto(t, "acquire")
    /\ UNCHANGED <<query, candidates, matcher, last, cache, norm, call>>

\* cls._init_done.wait(timeout=0.5): it returns True when the event is set
\* and False when the time is up before that
WaitInitDone ==
    /\ \E t \in WorkerThreads :
          /\ workers[t].pc = "wait"
          /\ \E wait_result \in {call.init_done, FALSE} :
                workers' = IF wait_result /\ call.instance # 0
                           THEN Leave(t, call.instance, "waited")
                           ELSE Goto(t, "acquire")
    /\ UNCHANGED <<query, candidates, matcher, last, cache, norm, call>>

\* with cls._lock
AcquireLock ==
    /\ \E t \in WorkerThreads :
          /\ workers[t].pc = "acquire"
          /\ call.lock = "free"
          /\ call' = [call EXCEPT !.lock = t]
          /\ workers' = Goto(t, "locked_check")
    /\ UNCHANGED <<query, candidates, matcher, last, cache, norm>>

\* the double check: the thread sets _init_in_progress and goes on to create
\* the client, or leaves the with block
LockedCheck ==
    /\ \E t \in WorkerThreads :
          /\ workers[t].pc = "locked_check"
          /\ IF needs_init(call)
             THEN /\ call' = [call EXCEPT !.init_in_progress = TRUE]
                  /\ workers' = Goto(t, "create")
             ELSE /\ call' = [call EXCEPT !.lock = "free"]
                  /\ workers' = Goto(t, "final")
    /\ UNCHANGED <<query, candidates, matcher, last, cache, norm>>

\* spotify_client = get_spotify_client(): a new client, or None or an
\* exception, which both end in the except block
CreateClient ==
    /\ \E t \in WorkerThreads :
          /\ workers[t].pc = "create"
          /\ \/ /\ call' = [call EXCEPT !.created = @ + 1]
                /\ workers' = [workers EXCEPT ![t].pc = "set_instance",
                                               ![t].spotify_client = call.created + 1]
             \/ /\ call' = call
                /\ workers' = Goto(t, "except")
    /\ UNCHANGED <<query, candidates, matcher, last, cache, norm>>

\* cls._instance = spotify_client
SetInstance ==
    /\ \E t \in WorkerThreads :
          /\ workers[t].pc = "set_instance"
          /\ call' = [call EXCEPT !.instance = workers[t].spotify_client]
          /\ workers' = Goto(t, "set_done")
    /\ UNCHANGED <<query, candidates, matcher, last, cache, norm>>

\* cls._init_done.set()
SetInitDone ==
    /\ \E t \in WorkerThreads :
          /\ workers[t].pc = "set_done"
          /\ call' = [call EXCEPT !.init_done = TRUE]
          /\ workers' = Goto(t, "return_created")
    /\ UNCHANGED <<query, candidates, matcher, last, cache, norm>>

\* return cls._instance, the finally block and the end of the with block
ReturnCreated ==
    /\ \E t \in WorkerThreads :
          /\ workers[t].pc = "return_created"
          /\ call' = [call EXCEPT !.init_in_progress = FALSE, !.lock = "free"]
          /\ workers' = Leave(t, call.instance, "created")
    /\ UNCHANGED <<query, candidates, matcher, last, cache, norm>>

\* the except block, the finally block and the end of the with block: the
\* call raises RuntimeError
CreateFailed ==
    /\ \E t \in WorkerThreads :
          /\ workers[t].pc = "except"
          /\ call' = [call EXCEPT !.init_in_progress = FALSE, !.init_done = FALSE,
                                   !.lock = "free"]
          /\ workers' = Leave(t, 0, "failed")
    /\ UNCHANGED <<query, candidates, matcher, last, cache, norm>>

\* after the with block: the instance another thread created is returned
FinalReturn ==
    /\ \E t \in WorkerThreads :
          /\ workers[t].pc = "final"
          /\ workers' = IF call.instance # 0 THEN Leave(t, call.instance, "locked")
                         ELSE Leave(t, 0, "raised")
    /\ UNCHANGED <<query, candidates, matcher, last, cache, norm, call>>

SingletonNext ==
    \/ GetInstance
    \/ CheckInstance
    \/ CheckProgress
    \/ WaitInitDone
    \/ AcquireLock
    \/ LockedCheck
    \/ CreateClient
    \/ SetInstance
    \/ SetInitDone
    \/ ReturnCreated
    \/ CreateFailed
    \/ FinalReturn

SingletonSpec == SingletonInit /\ [][SingletonNext]_vars

\* ------------------------------------------------------------------------
\* Properties
\* ------------------------------------------------------------------------
\* the matcher a call of op ran on
MatcherOf(op) ==
    CASE op = "get_enhanced_match" -> DefaultMatcher
      [] op = "select_best_match" -> ConfigMatcher
      [] OTHER -> matcher

\* the title a call of op handed to the matcher
TitleOf(op) == IF op = "select_best_match" THEN clean_title(query.title) ELSE query.title

\* candidate j passes the pre-filter and reaches the stage-1 threshold of m
Survives(m, input_title, j) ==
    /\ quick_check(input_title, query.artists, candidates[j])
    /\ calculate_similarity(m, input_title, query.artists, candidates[j]).weighted_score
           >= m.first_stage_threshold * Point

Survivors(m, input_title) == { j \in 1..Len(candidates) : Survives(m, input_title, j) }

\* the stage-2 threshold of the last call
Stage2Threshold ==
    IF last.testing THEN 50 ELSE MatcherOf(last.op).second_stage_threshold

\* C1: a match returned by get_enhanced_match with is_artist_only_search
\* = true has final_score 0 and is_low_confidence true, whatever score
\* the two stages computed for it.
C1_ArtistOnlyForcedZero ==
    (last.op = "get_enhanced_match" /\ last.artist_only /\ last.ret # <<>>) =>
        /\ last.ret[1]["similarity_scores"]["final_score"] = 0
        /\ last.ret[1]["similarity_scores"]["is_low_confidence"] = TRUE

\* an artist-only call that returned a match the stages scored 90 or more
C1_Witness ==
    /\ last.op = "get_enhanced_match" /\ last.artist_only /\ last.ret # <<>>
    /\ last.ret[1]["similarity_scores"]["original_score"] >= 90 * Point

\* C2: every candidate the two-stage match returns is a stage-1 survivor of
\* the same call: a candidate of the call that passes the pre-filter with a
\* weighted score at or above the stage-1 threshold.
C2_ReturnedAreSurvivors ==
    (last.op \in {"match", "get_enhanced_match"}) =>
        \A i \in 1..Len(last.ret) :
            \E j \in Survivors(MatcherOf(last.op), query.title) :
                candidates[j]["id"] = last.ret[i]["id"]

\* a match that returned candidates and left others out
C2_Witness ==
    /\ last.op = "match" /\ last.ret # <<>>
    /\ Survivors(matcher, query.title) # 1..Len(candidates)
    /\ Len(last.ret) < Len(candidates)

\* C3, as stated: stage 1 returns exactly the candidates that pass the
\* pre-filter with a weighted score at or above the stage-1 threshold; none
\* of them is left out.
C3_Stage1ExactlySurvivors ==
    (last.op = "first_stage_match" /\ ~last.raised) =>
        /\ \A i \in 1..Len(last.ret) :
              ScoreOf(last.ret[i], "weighted_score") >= matcher.first_stage_threshold * Point
        /\ \A j \in Survivors(matcher, query.title) :
              \E i \in 1..Len(last.ret) : last.ret[i]["id"] = candidates[j]["id"]

\* C3, amended: stage 1 returns, in non-increasing order of weighted score,
\* candidates that pass the pre-filter with a weighted score at or above the
\* stage-1 threshold: all of them when there are at most top_k (or top_k is
\* not positive), else top_k of them, and then no candidate left out scores
\* higher than a returned one.
C3_Stage1TopSurvivors ==
    (last.op = "first_stage_match" /\ ~last.raised) =>
        LET surviving == Survivors(matcher, query.title)
            returned == { j \in surviving :
                            \E i \in 1..Len(last.ret) : last.ret[i]["id"] = candidates[j]["id"] }
            score(j) == calculate_similarity(matcher, query.title, query.artists,
                                             candidates[j]).weighted_score
        IN /\ \A i \in 1..Len(last.ret) :
                 \E j \in surviving :
                    /\ candidates[j]["id"] = last.ret[i]["id"]
                    /\ ScoreOf(last.ret[i], "weighted_score") = score(j)
           /\ \A i \in 1..(Len(last.ret) - 1) :
                 ScoreOf(last.ret[i], "weighted_score")
                     >= ScoreOf(last.ret[i + 1], "weighted_score")
           /\ Len(last.ret) = Cardinality(returned)
           /\ Len(last.ret) = IF matcher.top_k > 0 /\ Cardinality(surviving) > matcher.top_k
                              THEN matcher.top_k
                              ELSE Cardinality(surviving)
           /\ \A j \in surviving \ returned : \A k \in returned : score(j) <= score(k)

\* stage 1 cut its list: more candidates survive than top_k
C3_Witness ==
    /\ last.op = "first_stage_match" /\ ~last.raised
    /\ Len(last.ret) = matcher.top_k
    /\ Cardinality(Survivors(matcher, query.title)) > matcher.top_k

\* C4: an empty stage-1 result is terminal: the matching of the song ends
\* with no match, stage 2 is not run and no candidate is returned as the
\* best match.
C4_EmptyStage1IsTerminal ==
    (/\ last.op \in {"match", "get_enhanced_match", "select_best_match"}
     /\ last.stage1_ran /\ ~last.raised
     /\ Survivors(MatcherOf(last.op), TitleOf(last.op)) = {}) =>
        /\ last.ret = <<>>
        /\ ~last.stage2_ran

\* C5: when stage 2 keeps no candidate, the result is the empty list or
\* exactly one element, the highest-scoring stage-1 survivor, marked
\* low-confidence.
C5_Stage2EmptyFallback ==
    (/\ last.op \in {"match", "select_best_match"}
     /\ last.stage2_ran
     /\ \A i \in 1..Len(last.first_matches) :
           ScoreOf(last.first_matches[i], "final_score") < Stage2Threshold * Point) =>
        \/ last.ret = <<>>
        \/ /\ Len(last.ret) = 1
           /\ last.ret[1]["id"] = last.first_matches[1]["id"]
           /\ \A i \in 1..Len(last.first_matches) :
                 ScoreOf(last.first_matches[1], "weighted_score")
                     >= ScoreOf(last.first_matches[i], "weighted_score")
           /\ \/ DictGet(last.ret[1], "is_low_confidence", FALSE) = TRUE
              \/ DictGet(last.ret[1]["similarity_scores"], "is_low_confidence", FALSE) = TRUE

\* C6: the list the two-stage match returns is in non-increasing order of
\* final score.
C6_SortedByFinalScore ==
    (last.op \in {"match", "second_stage_match"}) =>
        \A i \in 1..(Len(last.ret) - 1) :
            ScoreOf(last.ret[i], "final_score") >= ScoreOf(last.ret[i + 1], "final_score")

\* a match whose best match is not the best of stage 1
C6_Witness ==
    /\ last.op = "match" /\ Len(last.ret) >= 2
    /\ ScoreOf(last.ret[1], "final_score") > ScoreOf(last.ret[2], "final_score")
    /\ last.ret[1]["id"] # last.first_matches[1]["id"]

\* C7: a matched song returned by the artist-only (fourth) stage of the
\* degraded search has matched_score 0 and is_low_confidence true.
C7_ArtistOnlyStageScoreZero ==
    (last.op = "search" /\ last.stage = 4 /\ last.song # <<>>) =>
        /\ last.song[1].matched_score = 0
        /\ last.song[1].is_low_confidence

\* C8: stage 2 compares the original titles: the query title of a bracket
\* comparison is the title as supplied, with its annotation spans, and the
\* candidate title is the one of the candidate record.
C8_BracketsOnOriginalTitles ==
    (last.op \in {"match", "get_enhanced_match", "select_best_match"}) =>
        \A i \in 1..Len(last.calls) :
            /\ last.calls[i].input_title = query.title
            /\ \E j \in 1..Len(candidates) :
                  /\ candidates[j]["id"] = last.calls[i].id
                  /\ candidates[j]["name"] = last.calls[i].candidate_title

\* C9: a matching call leaves every candidate record the caller passed in
\* as it was: the candidate list of match, first_stage_match and
\* select_best_match, and the list handed to second_stage_match.
C9_CandidatesUnchanged ==
    [][ /\ candidates' = candidates
        /\ (last'.op = "second_stage_match" => last'.passed_after = last'.passed) ]_vars

C11_InvalidWeightsFailAtConstruction ==
    /\ (last.op = "construct") =>
           (last.raised <=> ~(/\ last.args[1] \in 0..100
                              /\ last.args[2] \in 0..100
                              /\ last.args[1] + last.args[2] = 100))
    /\ matcher.title_weight \in 0..100
    /\ matcher.artist_weight \in 0..100
    /\ matcher.title_weight + matcher.artist_weight = 100
    /\ MatcherOf("select_best_match").title_weight
           + MatcherOf("select_best_match").artist_weight = 100
    /\ MatcherOf("get_enhanced_match").title_weight
           + MatcherOf("get_enhanced_match").artist_weight = 100

\* a construction that failed on weights in range whose sum is not 1.0
C11_Witness ==
    /\ last.op = "construct" /\ last.raised
    /\ last.args[1] \in 0..100 /\ last.args[2] \in 0..100

\* C12: every call of normalize_text returns what a normalization without
\* the cache gives for the same text with the same options; a value taken
\* from the cache is never that of other options.
C12_CacheIsTransparent ==
    norm.returned =>
        norm.value = normalize_text_uncached(norm.text, norm.remove_patterns)

\* C13: with threads sharing the cache, every normalization a matching
\* call asks for returns the value it has without the cache, every entry
\* of such a call holds that value, and no such entry is dropped or
\* changed by a later step.
C13_SharedCacheIsSafe ==
    /\ [](/\ (norm.returned /\ norm.remove_patterns \in MatchingOptions) =>
                norm.value = normalize_text_uncached(norm.text, norm.remove_patterns)
           /\ \A text \in NormTexts \ {None}, patterns \in MatchingOptions :
                cache_key(text, patterns) \in DOMAIN cache =>
                    cache[cache_key(text, patterns)]
                        = normalize_text_uncached(text, patterns))
    /\ [][\A text \in NormTexts \ {None}, patterns \in MatchingOptions :
              cache_key(text, patterns) \in DOMAIN cache =>
                 /\ cache_key(text, patterns) \in DOMAIN cache'
                 /\ cache'[cache_key(text, patterns)] = cache[cache_key(text, patterns)]]_vars

\* a thread that missed the cache is about to store an entry that another
\* thread has stored since, while the cache holds other entries
C13_Witness ==
    \E w \in WorkerThreads :
        /\ workers[w].pc = "miss"
        /\ workers[w].remove_patterns \in MatchingOptions
        /\ cache_key(workers[w].text, workers[w].remove_patterns) \in DOMAIN cache
        /\ Cardinality(DOMAIN cache) >= 2

\* the spans of a title, and the type of the only span of a title
HasSpans(title) == extract_brackets(title) # <<>>
SpanType(title) == classify_bracket_type(normalize_bracket_content(extract_brackets(title)[1]))

\* C14: when neither title holds an annotation span, BracketMatcher.match
\* returns the base score it was given, whatever the base score.
C14_NoSpansKeepBaseScore ==
    (call.op = "bracket_match" /\ ~HasSpans(call.input_title)
        /\ ~HasSpans(call.candidate_title))
    => (~call.raised /\ call.ret = call.base_score)

\* a call without spans under a positive bracket weight, with a base score
\* that an added bracket contribution would change
C14_Witness ==
    /\ call.op = "bracket_match"
    /\ ~HasSpans(call.input_title) /\ ~HasSpans(call.candidate_title)
    /\ call.m.bracket_weight > 0
    /\ call.base_score = 50 * Point

C16_MismatchLowersScore ==
    (call.op = "bracket_match" /\ ~call.raised
        /\ \/ HasSpans(call.input_title) # HasSpans(call.candidate_title)
           \/ /\ HasSpans(call.input_title) /\ HasSpans(call.candidate_title)
              /\ SpanType(call.input_title) # SpanType(call.candidate_title))
    => call.ret < call.base_score

\* C17: with the base score, the bracket similarity and the keyword bonus
\* of a call fixed, no larger bracket weight gives a lower final score.
C17_BracketWeightMonotone ==
    call.op = "final_score" =>
        \A m2 \in ScoreMatchers :
            (m2.bracket_weight >= call.m.bracket_weight
                /\ m2.bracket_threshold = call.m.bracket_threshold)
            => calculate_final_score(m2, call.base_score, call.bracket_score,
                                     call.keyword_bonus) >= call.ret

\* a call whose bracket similarity reaches the threshold and whose score a
\* larger bracket weight raises
C17_Witness ==
    /\ call.op = "final_score"
    /\ call.bracket_score >= call.m.bracket_threshold * Point
    /\ call.m.bracket_weight = 30
    /\ \E m2 \in ScoreMatchers :
          /\ m2.bracket_weight > call.m.bracket_weight
          /\ m2.bracket_threshold = call.m.bracket_threshold
          /\ calculate_final_score(m2, call.base_score, call.bracket_score,
                                   call.keyword_bonus) > call.ret

\* C18: every score stored in a match that match_with_normalized_info
\* returns (title score, artist score, main score, bracket score, final
\* score) lies in [0, 100].
C18_StoredScoresInRange ==
    (call.op = "match_with_normalized_info" /\ ~call.raised)
    => \A i \in 1..Len(call.ret) :
          \A key \in {"title_score", "artist_score", "main_score", "bracket_score",
                       "final_score"} :
              /\ ScoreOf(call.ret[i], key) >= 0
              /\ ScoreOf(call.ret[i], key) <= 100 * Point

\* C19: when both titles hold a feat span, the comparison of the spans
\* completes without raising.
C19_FeatSpansCompareWithoutRaising ==
    (call.op = "bracket_match"
        /\ HasSpans(call.input_title) /\ HasSpans(call.candidate_title)
        /\ SpanType(call.input_title) = "feat" /\ SpanType(call.candidate_title) = "feat")
    => ~call.raised

\* no artist name of the one list is part of a name of the other
NoArtistOverlap(input_artists, candidate_artists) ==
    \A i \in 1..Len(input_artists) : \A j \in 1..Len(candidate_artists) :
        /\ ~NameIn(input_artists[i], candidate_artists[j])
        /\ ~NameIn(candidate_artists[j], input_artists[i])

TitleLengthsApart(input_title, candidate_title) ==
    2 * Abs(CharLen(input_title) - CharLen(candidate_title)) > CharLen(input_title)

PlainAverage(input_artists, candidate_artists) ==
    (SumSeq([i \in 1..Len(input_artists) |->
                BestArtistMatch(input_artists[i], candidate_artists)]) * Point)
        \div Len(input_artists)

\* C21: when the best match of the first input artist is 90 or more, the
\* artist score is the larger of the plain average and max(85, that match).
C21_PrimaryArtistFloorsAverage ==
    (call.op = "artists_similarity"
        /\ call.input_artists # <<>> /\ call.candidate_artists # <<>>
        /\ BestArtistMatch(call.input_artists[1], call.candidate_artists) >= 90)
    => call.ret
         = Max2(PlainAverage(call.input_artists, call.candidate_artists),
                Max2(85, BestArtistMatch(call.input_artists[1], call.candidate_artists))
                    * Point)


\* C22: normalizing the output of normalize again, under the same options,
\* gives that output back.
C22_NormalizeIsIdempotent ==
    call.op = "normalize"
    => normalize(call.ret, call.remove_patterns, call.preserve_brackets) = call.ret


\* the bracketed spans written back with round brackets and blanks around them
RECURSIVE CanonicalSpans(_)
CanonicalSpans(t) ==
    IF t = <<>> THEN <<>>
    ELSE IF Head(t) \in SplitOpeners /\ IndexFrom(t, SpanCloser(Head(t)), 2) # 0
         THEN <<" ", "(">> \o SubSeq(t, 2, IndexFrom(t, SpanCloser(Head(t)), 2) - 1)
              \o <<")", " ">>
              \o CanonicalSpans(SubSeq(t, IndexFrom(t, SpanCloser(Head(t)), 2) + 1, Len(t)))
         ELSE <<Head(t)>> \o CanonicalSpans(Tail(t))

\* the steps of the normalizer composed in the order script, case, width,
\* separators, annotations, whitespace
StepsInOrder(text, patterns, preserve_brackets) ==
    normalize_whitespace(
        IF preserve_brackets
        THEN CanonicalSpans(normalize_separators(
                 normalize_fullwidth(to_lowercase(to_simplified_chinese(text)))))
        ELSE remove_patterns(
                 normalize_separators(
                     normalize_fullwidth(to_lowercase(to_simplified_chinese(text)))),
                 patterns))

\* C23: the result of normalize is the composition of its steps in the order
\* script fold, case fold, width fold, separators, annotation handling,
\* whitespace.
C23_NormalizeIsStepsInOrder ==
    call.op = "normalize"
    => call.ret = StepsInOrder(call.text, call.remove_patterns, call.preserve_brackets)

\* a span of t opened and closed by a matching pair of delimiters
HasBalancedSpan(t) ==
    \E i \in 1..Len(t), j \in 1..Len(t) :
        i < j /\ t[i] \in SplitOpeners /\ t[j] = SpanCloser(t[i])

\* C24: when the annotations are not preserved and the bracket removal is
\* asked for, the output holds no bracketed span of any of the bracket kinds.
C24_NoBracketedSpanLeft ==
    (call.op = "normalize" /\ ~call.preserve_brackets
        /\ call.remove_patterns = <<"brackets">>)
    => ~HasBalancedSpan(call.ret)


\* C25: a match against an empty candidate list returns the empty list at
\* once: nothing is raised and neither stage runs.
C25_EmptyCandidatesReturnEmpty ==
    (last.op \in {"match", "string_match"} /\ candidates = <<>>)
    => (last.ret = <<>> /\ ~last.raised /\ ~last.stage1_ran /\ ~last.stage2_ran)

\* match was called with no candidates and a title that is None, which
\* raises as soon as a candidate is looked at
C25_Witness ==
    last.op = "match" /\ candidates = <<>> /\ query.title = None /\ last.ret = <<>>


\* C26: the pre-filter is conservative: a candidate whose weighted score
\* reaches the stage-1 threshold is returned by stage 1, unless the list
\* was cut to its top_k best.
C26_PreFilterIsConservative ==
    (last.op = "first_stage_match" /\ ~last.raised) =>
        \A j \in 1..Len(candidates) :
            calculate_similarity(matcher, query.title, query.artists,
                                 candidates[j]).weighted_score
                    >= matcher.first_stage_threshold * Point
            => \/ \E i \in 1..Len(last.ret) : last.ret[i]["id"] = candidates[j]["id"]
               \/ Len(last.ret) = matcher.top_k


\* the stages whose queries the search has sent are in ascending order
SentInOrder ==
    /\ \A i \in 1..Len(last.sent) : last.sent[i] \in 1..4
    /\ \A i \in 1..(Len(last.sent) - 1) : last.sent[i] < last.sent[i + 1]

\* C27: the search sends its stages in the order title and artists (1),
\* title only (2), title keywords and artist (3), artist only (4), and
\* once a stage has produced a match no later stage sends a query.
C27_StagesInOrderStopAtMatch ==
    /\ [](last.op = "search" =>
             /\ SentInOrder
             /\ (last.song # <<>> =>
                    last.pc = 0 /\ last.stage = last.sent[Len(last.sent)]))
    /\ [][(last.op = "search" /\ last.song # <<>> /\ last'.op = "search")
             => last'.sent = <<>>]_vars

\* the first stage found nothing and the second one produced the match
C27_Witness ==
    last.op = "search" /\ last.sent = <<1, 2>> /\ last.song # <<>> /\ last.pc = 0


\* C28: the wrapped function is invoked at most max_retries + 1 times, and
\* an invocation that fails with a non-retryable API error or an unexpected
\* exception is the last one.
C28_BoundedRetries ==
    call.op = "with_retry" =>
        /\ Len(call.invocations) <= call.max_retries + 1
        /\ \A i \in 1..(Len(call.invocations) - 1) :
               call.invocations[i] \notin {"fatal", "unexpected"}
        /\ (call.pc = "loop" /\ call.invocations # <<>>
              => call.invocations[Len(call.invocations)] \notin {"fatal", "unexpected"})

\* every allowed attempt was used and the last error is raised
C28_Witness ==
    /\ call.op = "with_retry" /\ call.max_retries = 2
    /\ call.invocations = <<"rate_limit", "retryable", "rate_limit">>
    /\ call.pc = "raised"


\* C29: process_song_list_file returns (total, matched, failed) with total
\* = matched + failed and total the number of the non-empty lines of the
\* file: every non-empty line is counted once, as matched or as failed.
C29_EveryLineCountedOnce ==
    (call.op = "process_song_list_file" /\ call.pc = "returned") =>
        /\ call.ret[1] = call.ret[2] + call.ret[3]
        /\ call.ret[1] = NonEmptyLines(call.lines)


\* C30: whatever the interleaving of concurrent get_instance calls, with no
\* reset, the client is created at most once and every call that returns
\* returns that one instance.
C30_OneInstanceForAll ==
    call.op = "singleton" =>
        /\ call.created <= 1
        /\ \A t \in WorkerThreads :
               workers[t].ret # 0 => workers[t].ret = 1 /\ call.instance = 1

\* one thread created the client while the other was held at the lock: the
\* double check kept the second from creating another
C30_Witness ==
    /\ call.op = "singleton" /\ call.created = 1
    /\ \E t, u \in WorkerThreads :
          /\ workers[t].via = "created" /\ workers[t].ret = 1
          /\ workers[u].via = "locked" /\ workers[u].ret = 1

====
